---------------------------- MODULE Spec2Model ----------------------------
(***************************************************************************)
(* Numerology order bot: the conversational order flow                     *)
(* (handlers/order_flow.py, handlers/commands.py) and the fulfilment       *)
(* pipeline (handlers/payments.py, services/ai_service.py,                 *)
(* services/n8n_result_handler.py, handlers/n8n_webhook.py).               *)
(*                                                                         *)
(* Message texts are sequences of one-character strings, so that           *)
(* str.isdigit, int() and strptime are computed and not assumed.           *)
(***************************************************************************)
EXTENDS Integers, Sequences, FiniteSets, Bags, TLC

VARIABLES
    users,          \* table users: sequence of rows, id = index
    orders,         \* table orders: sequence of rows, id = index
    participants,   \* table order_participants: sequence of rows
    reviews,        \* table reviews: sequence of rows
    fsm_state,      \* FSMContext state of the chat user (Redis)
    fsm_data,       \* FSMContext data of the chat user (Redis), a dict
    inp,            \* the update the last handler was given
    reply,          \* what the last handler answered
    ai_logs,        \* table ai_logs: sequence of rows, id = index
    files,          \* the PDF directory: set of [path, content]
    outbox,         \* bag of what the bot has sent to chats
    provider_calls, \* per order id, the calls made to AI providers
    review_timers,  \* per order id, the request_review tasks created
    invoices,       \* invoices sent to the chat and not yet checked out
    approved,       \* approved pre-checkouts whose payment is on its way
    tasks,          \* bag of the handler invocations in flight
    updates,        \* state-changing updates received so far; the clock
    config          \* Config and the process-wide GPT client

dbVars   == <<users, orders, participants, reviews>>
flowVars == <<fsm_state, fsm_data, inp, reply>>
pipeVars == <<ai_logs, files, outbox, provider_calls, review_timers,
              invoices, approved, tasks, updates, config>>
vars     == <<users, orders, participants, reviews, fsm_state, fsm_data, inp, reply,
              ai_logs, files, outbox, provider_calls, review_timers,
              invoices, approved, tasks, updates, config>>

---------------------------------------------------------------------------
(* Bounds of the model *)

\* orders one chat user may create before /new is no longer explored
MaxOrders == 1
\* presses of the "skip" button explored within one collection session
MaxSkips == 1

---------------------------------------------------------------------------
(* Python values *)

\* Python None standing where a text may stand
None == <<"<None>">>
\* Python None / int standing where an int may stand
PyNone == [k |-> "None"]
PyInt(n) == [k |-> "int", v |-> n]
\* the empty dict
EmptyDict == <<>>

\* dict.get(key, default)
Get(d, key, default) == IF key \in DOMAIN d THEN d[key] ELSE default
\* dict[key] = value / state.update_data(key=value)
Upd(d, key, value) == [x \in (DOMAIN d) \cup {key} |-> IF x = key THEN value ELSE d[x]]

---------------------------------------------------------------------------
(* Texts *)

AsciiDigits == {"0", "1", "2", "3", "4", "5", "6", "7", "8", "9"}
\* str.isdigit is also true of digits that int() does not accept,
\* such as SUPERSCRIPT TWO, written here as the one character "sup2"
UnicodeDigits == AsciiDigits \cup {"sup2"}

DigitVal(c) ==
    CASE c = "0" -> 0 [] c = "1" -> 1 [] c = "2" -> 2 [] c = "3" -> 3
      [] c = "4" -> 4 [] c = "5" -> 5 [] c = "6" -> 6 [] c = "7" -> 7
      [] c = "8" -> 8 [] c = "9" -> 9

\* str.isdigit()
IsDigit(t) == Len(t) > 0 /\ \A i \in 1..Len(t) : t[i] \in UnicodeDigits

\* int(t) raises ValueError unless every character is a decimal digit
IntParses(t) == Len(t) > 0 /\ \A i \in 1..Len(t) : t[i] \in AsciiDigits

RECURSIVE ToInt(_)
ToInt(t) == IF Len(t) = 0 THEN 0
            ELSE 10 * ToInt(SubSeq(t, 1, Len(t) - 1)) + DigitVal(t[Len(t)])

\* str.split(sep) for a one-character separator
RECURSIVE Split(_, _)
Split(t, sep) ==
    IF \A i \in 1..Len(t) : t[i] # sep THEN <<t>>
    ELSE LET p == CHOOSE i \in 1..Len(t) :
                      t[i] = sep /\ \A j \in 1..(i - 1) : t[j] # sep
         IN <<SubSeq(t, 1, p - 1)>> \o Split(SubSeq(t, p + 1, Len(t)), sep)

IsLeap(y) == (y % 4 = 0 /\ y % 100 # 0) \/ y % 400 = 0
DaysIn(m, y) == IF m = 2 THEN (IF IsLeap(y) THEN 29 ELSE 28)
                ELSE IF m \in {4, 6, 9, 11} THEN 30 ELSE 31

\* datetime.strptime(t, "%d.%m.%Y") does not raise ValueError
DateParses(t) ==
    LET p == Split(t, ".") IN
    /\ Len(p) = 3
    /\ IntParses(p[1]) /\ Len(p[1]) <= 2
    /\ IntParses(p[2]) /\ Len(p[2]) <= 2
    /\ IntParses(p[3]) /\ Len(p[3]) = 4
    /\ ToInt(p[3]) >= 1
    /\ ToInt(p[2]) \in 1..12
    /\ ToInt(p[1]) >= 1 /\ ToInt(p[1]) <= DaysIn(ToInt(p[2]), ToInt(p[3]))

\* datetime.strptime(t, "%d.%m.%Y").date()
StrptimeDate(t) ==
    LET p == Split(t, ".") IN <<ToInt(p[3]), ToInt(p[2]), ToInt(p[1])>>

\* datetime.strptime(t, "%H:%M") does not raise ValueError
TimeParses(t) ==
    LET p == Split(t, ":") IN
    /\ Len(p) = 2
    /\ IntParses(p[1]) /\ Len(p[1]) <= 2 /\ ToInt(p[1]) <= 23
    /\ IntParses(p[2]) /\ Len(p[2]) <= 2 /\ ToInt(p[2]) <= 59

\* datetime.strptime(t, "%H:%M").time()
StrptimeTime(t) ==
    LET p == Split(t, ":") IN <<ToInt(p[1]), ToInt(p[2])>>

\* SQL NULL in a column
NULL == <<>>

---------------------------------------------------------------------------
(* What the chat user may send *)

NameTexts  == { <<"I", "v", "a", "n">> }
DateTexts  == { <<"2", "5", ".", "1", "2", ".", "1", "9", "9", "0">>,
                <<"3", "1", ".", "0", "2", ".", "1", "9", "9", "0">>,
                <<"1", "9", "9", "0", "-", "1", "2", "-", "2", "5">> }
TimeTexts  == { <<"1", "4", ":", "3", "0">>,
                <<"2", "5", ":", "0", "0">>,
                <<"n", "o", "o", "n">> }
PlaceTexts == { <<"O", "m", "s", "k">> }
CountTexts == { <<"2">>, <<"3">>, <<"5">>, <<"6">>, <<"1", "0">>,
                <<"0", "4">>, <<"-", "1">>, <<"a", "b">>, <<"sup2">> }
PlainTexts == NameTexts \cup DateTexts \cup TimeTexts \cup PlaceTexts \cup CountTexts

Tariffs == {"quick", "deep", "pair", "family"}
Styles  == {"shamanic"}

\* message.answer / callback.answer of a handler, or what it raised
Said(what) == [what |-> what]

Message(t)  == [kind |-> "message", text |-> t]
Callback(d) == [kind |-> "callback", text |-> d]

\* the one chat user of the collection flow, by Telegram id
FlowUser == "tg1"

---------------------------------------------------------------------------
(* Program constants *)

\* a price table that charges every tariff the price of the cheapest
TariffPriceFlat(tariff) == 500

\* TARIFF_PRICES
TariffPrice(tariff) ==
    CASE tariff = "quick" -> 500 [] tariff = "deep" -> 1500
      [] tariff = "pair" -> 2000 [] tariff = "family" -> 3000

\* a count table that asks three participants of a pair
TariffParticipantsPairOfThree(tariff) ==
    CASE tariff = "quick" -> PyInt(1) [] tariff = "deep" -> PyInt(1)
      [] tariff = "pair" -> PyInt(3) [] tariff = "family" -> PyNone

\* participants_count of process_tariff; None: the user is asked
TariffParticipants(tariff) ==
    CASE tariff = "quick" -> PyInt(1) [] tariff = "deep" -> PyInt(1)
      [] tariff = "pair" -> PyInt(2) [] tariff = "family" -> PyNone

\* order_uuid default: a fresh uuid4 for every row
UuidOf(id) ==
    CASE id = 1 -> <<"a", "1">> [] id = 2 -> <<"a", "2">>
      [] OTHER -> <<"b", "3">>

---------------------------------------------------------------------------
(* Routing: Dispatcher.include_router order and the handlers' filters *)

CmdStart  == <<"/", "s", "t", "a", "r", "t">>
CmdCancel == <<"/", "c", "a", "n", "c", "e", "l">>
CmdNew    == <<"/", "n", "e", "w">>

\* the handler aiogram gives the update to: the first whose filters accept it
Route(state, ev) ==
    IF ev.kind = "message" THEN
        \* commands.router, then order_flow.router, then reviews.router
        IF ev.text = CmdStart THEN "start_handler"
        ELSE IF ev.text = CmdCancel THEN "cancel_handler"
        ELSE IF ev.text = CmdNew THEN "start_order"
        ELSE IF state = "asking_family_count" /\ IsDigit(ev.text)
             THEN "process_family_count"
        ELSE IF state = "entering_full_name" THEN "process_full_name"
        ELSE IF state = "entering_birth_date" THEN "process_birth_date"
        ELSE IF state = "entering_birth_time" THEN "process_birth_time"
        ELSE IF state = "entering_birth_place" THEN "process_birth_place"
        ELSE IF state = "waiting_for_comment" THEN "process_review_comment"
        ELSE "unhandled"
    ELSE
        IF state = "choosing_tariff" /\ ev.text[1] = "tariff" THEN "process_tariff"
        ELSE IF state = "entering_birth_time" /\ ev.text = <<"skip">>
             THEN "skip_birth_time"
        ELSE IF state = "entering_birth_place" /\ ev.text = <<"skip">>
             THEN "skip_birth_place"
        ELSE IF state = "choosing_style" /\ ev.text[1] = "style" THEN "process_style"
        ELSE IF ev.text[1] = "review" THEN "process_review_rating"
        ELSE "unhandled"

Messages  == {Message(t) : t \in PlainTexts \cup {CmdStart, CmdCancel, CmdNew}}
Callbacks == {Callback(<<"tariff", t>>) : t \in Tariffs}
             \cup {Callback(<<"style", s>>) : s \in Styles}
             \cup {Callback(<<"skip">>)}

---------------------------------------------------------------------------
(* The collection flow, handlers/order_flow.py and handlers/commands.py *)

\* a clear() that forgets the state and keeps the data
ClearedStateOnly == /\ fsm_state' = "None"
                    /\ fsm_data' = fsm_data

\* state.clear()
Cleared == /\ fsm_state' = "None"
           /\ fsm_data' = EmptyDict

\* a rejection that ends the session
SessionDropped == /\ fsm_state' = "None"
                  /\ fsm_data' = EmptyDict

\* the session is left as it is
SessionKept == UNCHANGED <<fsm_state, fsm_data>>

UserRows(tg) == {i \in 1..Len(users) : users[i].telegram_id = tg}

\* skip presses already stored in the session
SkipsUsed ==
    LET pd == Get(fsm_data, "participants_data", <<>>) IN
    Cardinality({<<i, key>> \in (1..Len(pd)) \X {"birth_time", "birth_place"} :
                    key \in DOMAIN pd[i] /\ pd[i][key] = None})

\* participants_data[idx][key] = value (idx zero-based)
SetField(pd, idx, key, value) == [pd EXCEPT ![idx + 1] = Upd(@, key, value)]

start_handler ==
    /\ Route(fsm_state, Message(CmdStart)) = "start_handler"
    /\ inp' = Message(CmdStart)
    /\ Cleared
    /\ users' = IF UserRows(FlowUser) = {}
                THEN Append(users, [telegram_id |-> FlowUser])
                ELSE users
    /\ reply' = Said("welcome")
    /\ UNCHANGED <<orders, participants, reviews, pipeVars>>

cancel_handler ==
    /\ Route(fsm_state, Message(CmdCancel)) = "cancel_handler"
    /\ inp' = Message(CmdCancel)
    /\ IF fsm_state = "None"
       THEN SessionKept /\ reply' = Said("no_active_order")
       ELSE Cleared /\ reply' = Said("order_cancelled")
    /\ UNCHANGED <<dbVars, pipeVars>>

\* a /new that keeps the data of the session it interrupts
StartOrderDataKept(d) == d

\* the session data after state.clear() of start_order
StartOrderData(d) == EmptyDict

start_order ==
    /\ Route(fsm_state, Message(CmdNew)) = "start_order"
    /\ Len(orders) < MaxOrders
    /\ inp' = Message(CmdNew)
    /\ fsm_state' = "choosing_tariff"
    /\ fsm_data' = StartOrderData(fsm_data)
    /\ reply' = Said("choose_tariff")
    /\ UNCHANGED <<dbVars, pipeVars>>

process_tariff ==
    \E ev \in Callbacks :
        /\ Route(fsm_state, ev) = "process_tariff"
        /\ inp' = ev
        /\ LET tariff == ev.text[2]
               d1 == Upd(Upd(Upd(fsm_data, "tariff", tariff),
                             "participants_data", <<>>), "current_participant", 0)
           IN /\ fsm_data' = Upd(d1, "participants_count", TariffParticipants(tariff))
              /\ IF tariff = "family"
                 THEN fsm_state' = "asking_family_count" /\ reply' = Said("ask_family_count")
                 ELSE fsm_state' = "entering_full_name" /\ reply' = Said("ask_full_name")
        /\ UNCHANGED <<dbVars, pipeVars>>

\* a range check that lets a family of two through
FamilyCountRejectedBelowTwo(count) == count < 2 \/ count > 5

\* the range check of process_family_count
FamilyCountRejected(count) == count < 3 \/ count > 5

process_family_count ==
    \E ev \in Messages :
        /\ Route(fsm_state, ev) = "process_family_count"
        /\ inp' = ev
        /\ IF ~IntParses(ev.text)
           THEN SessionKept /\ reply' = Said("raised:ValueError")
           ELSE IF FamilyCountRejected(ToInt(ev.text))
           THEN SessionKept /\ reply' = Said("family_count_out_of_range")
           ELSE /\ fsm_data' = Upd(fsm_data, "participants_count", PyInt(ToInt(ev.text)))
                /\ fsm_state' = "entering_full_name"
                /\ reply' = Said("ask_full_name")
        /\ UNCHANGED <<dbVars, pipeVars>>

process_full_name ==
    \E ev \in Messages :
        /\ Route(fsm_state, ev) = "process_full_name"
        /\ ev.text \in NameTexts
        /\ inp' = ev
        /\ LET pd  == Get(fsm_data, "participants_data", <<>>)
               cur == Get(fsm_data, "current_participant", 0)
               pd2 == IF Len(pd) <= cur
                      THEN Append(pd, [full_name |-> ev.text])
                      ELSE SetField(pd, fsm_data["current_participant"],
                                    "full_name", ev.text)
           IN fsm_data' = Upd(fsm_data, "participants_data", pd2)
        /\ fsm_state' = "entering_birth_date"
        /\ reply' = Said("ask_birth_date")
        /\ UNCHANGED <<dbVars, pipeVars>>

\* a field store that leaves a skipped field out of the participant
StoreFieldSkipOmitted(key, value) ==
    IF value = None THEN fsm_data
    ELSE Upd(fsm_data, "participants_data",
             SetField(fsm_data["participants_data"],
                      fsm_data["current_participant"], key, value))

\* a handler storing one field of the current participant: the session's
\* data afterwards, or the IndexError of participants_data[current]
StoreField(key, value) ==
    LET pd  == fsm_data["participants_data"]
        cur == fsm_data["current_participant"]
    IN Upd(fsm_data, "participants_data", SetField(pd, cur, key, value))

CurrentInRange ==
    fsm_data["current_participant"] < Len(fsm_data["participants_data"])

process_birth_date ==
    \E ev \in Messages :
        /\ Route(fsm_state, ev) = "process_birth_date"
        /\ ev.text \in DateTexts
        /\ inp' = ev
        /\ IF ~DateParses(ev.text)
           THEN SessionKept /\ reply' = Said("bad_date_format")
           ELSE IF ~CurrentInRange
           THEN SessionKept /\ reply' = Said("raised:IndexError")
           ELSE /\ fsm_data' = StoreField("birth_date", ev.text)
                /\ fsm_state' = "entering_birth_time"
                /\ reply' = Said("ask_birth_time")
        /\ UNCHANGED <<dbVars, pipeVars>>

process_birth_time ==
    \E ev \in Messages :
        /\ Route(fsm_state, ev) = "process_birth_time"
        /\ ev.text \in TimeTexts
        /\ inp' = ev
        /\ IF ~TimeParses(ev.text)
           THEN SessionKept /\ reply' = Said("bad_time_format")
           ELSE IF ~CurrentInRange
           THEN SessionKept /\ reply' = Said("raised:IndexError")
           ELSE /\ fsm_data' = StoreField("birth_time", ev.text)
                /\ fsm_state' = "entering_birth_place"
                /\ reply' = Said("ask_birth_place")
        /\ UNCHANGED <<dbVars, pipeVars>>

skip_birth_time ==
    /\ Route(fsm_state, Callback(<<"skip">>)) = "skip_birth_time"
    /\ SkipsUsed < MaxSkips
    /\ inp' = Callback(<<"skip">>)
    /\ IF ~CurrentInRange
       THEN SessionKept /\ reply' = Said("raised:IndexError")
       ELSE /\ fsm_data' = StoreField("birth_time", None)
            /\ fsm_state' = "entering_birth_place"
            /\ reply' = Said("ask_birth_place")
    /\ UNCHANGED <<dbVars, pipeVars>>

\* a cursor test that stops one participant early
MoreParticipantsStopsEarly(current, total) == current + 2 < total

\* a cursor test that asks for one participant more than the count
MoreParticipantsOvershoots(current, total) == current < total

\* check_next_participant: more participants to collect
MoreParticipants(current, total) == current + 1 < total

\* check_next_participant(message, state) on session data d
check_next_participant(d) ==
    LET current == d["current_participant"]
        total   == d["participants_count"].v
    IN IF MoreParticipants(current, total)
       THEN /\ fsm_data' = Upd(d, "current_participant", current + 1)
            /\ fsm_state' = "entering_full_name"
            /\ reply' = Said("ask_full_name")
       ELSE /\ fsm_data' = d
            /\ fsm_state' = "choosing_style"
            /\ reply' = Said("choose_style")

process_birth_place ==
    \E ev \in Messages :
        /\ Route(fsm_state, ev) = "process_birth_place"
        /\ ev.text \in PlaceTexts
        /\ inp' = ev
        /\ IF ~CurrentInRange
           THEN SessionKept /\ reply' = Said("raised:IndexError")
           ELSE check_next_participant(StoreField("birth_place", ev.text))
        /\ UNCHANGED <<dbVars, pipeVars>>

skip_birth_place ==
    /\ Route(fsm_state, Callback(<<"skip">>)) = "skip_birth_place"
    /\ SkipsUsed < MaxSkips
    /\ inp' = Callback(<<"skip">>)
    /\ IF ~CurrentInRange
       THEN SessionKept /\ reply' = Said("raised:IndexError")
       ELSE check_next_participant(StoreField("birth_place", None))
    /\ UNCHANGED <<dbVars, pipeVars>>

\* ParticipantType of the participant at zero-based index idx
ParticipantTypeOf(idx, tariff) ==
    IF idx = 0 THEN "main"
    ELSE IF tariff = "pair" THEN "partner" ELSE "family_member"

\* the Order row process_style adds
NewOrder(user_id, id, tariff, style) ==
    [ user_id |-> user_id, order_uuid |-> UuidOf(id), tariff |-> tariff,
      style |-> style, status |-> "pending", amount |-> TariffPrice(tariff),
      currency |-> "RUB", payment_method |-> "NULL", payment_id |-> NULL,
      pdf_url |-> NULL, paid_at |-> NULL, completed_at |-> NULL ]

\* a row that stores a skipped field as a value: midnight, the empty text
NewParticipantSkipAsValue(order_id, idx, pdata, tariff) ==
    [ order_id |-> order_id,
      full_name |-> pdata["full_name"],
      birth_date |-> StrptimeDate(pdata["birth_date"]),
      birth_time |-> IF Get(pdata, "birth_time", None) # None
                     THEN StrptimeTime(pdata["birth_time"]) ELSE <<0, 0>>,
      birth_place |-> IF Get(pdata, "birth_place", None) # None
                      THEN pdata["birth_place"] ELSE <<"">>,
      participant_type |-> ParticipantTypeOf(idx, tariff) ]

\* the OrderParticipant row process_style adds for participants_data[idx]
NewParticipant(order_id, idx, pdata, tariff) ==
    [ order_id |-> order_id,
      full_name |-> pdata["full_name"],
      birth_date |-> StrptimeDate(pdata["birth_date"]),
      birth_time |-> IF Get(pdata, "birth_time", None) # None
                     THEN StrptimeTime(pdata["birth_time"]) ELSE NULL,
      birth_place |-> IF Get(pdata, "birth_place", None) # None
                      THEN pdata["birth_place"] ELSE NULL,
      participant_type |-> ParticipantTypeOf(idx, tariff) ]

\* a commit of the order alone
NoParticipants(order_id, pd, tariff) == <<>>

\* the rows process_style commits for the session's participants_data
NewParticipants(order_id, pd, tariff) ==
    [i \in 1..Len(pd) |-> NewParticipant(order_id, i - 1, pd[i], tariff)]

process_style ==
    \E ev \in Callbacks :
        /\ Route(fsm_state, ev) = "process_style"
        /\ inp' = ev
        /\ IF UserRows(FlowUser) = {}
           THEN \* scalar_one() raises NoResultFound
                /\ SessionKept
                /\ reply' = Said("raised:NoResultFound")
                /\ UNCHANGED <<dbVars, pipeVars>>
           ELSE LET user_id == CHOOSE i \in UserRows(FlowUser) : TRUE
                    id      == Len(orders) + 1
                    tariff  == fsm_data["tariff"]
                IN /\ orders' = Append(orders, NewOrder(user_id, id, tariff, ev.text[2]))
                   /\ participants' = participants \o
                          NewParticipants(id, fsm_data["participants_data"], tariff)
                   /\ Cleared
                   /\ reply' = Said("order_created")
                   /\ UNCHANGED <<users, reviews, pipeVars>>

\* the updates explored where no handler takes them
Strays ==
    {Message(<<"a", "b">>), Message(<<"-", "1">>), Message(<<"I", "v", "a", "n">>),
     Callback(<<"tariff", "quick">>), Callback(<<"style", "shamanic">>),
     Callback(<<"skip">>)}

\* an update no handler's filters accept is dropped
unhandled_update ==
    \E ev \in Strays :
        /\ Route(fsm_state, ev) = "unhandled"
        /\ inp' = ev
        /\ reply' = Said("nothing")
        /\ SessionKept
        /\ UNCHANGED <<dbVars, pipeVars>>

\* the FSM record in Redis expires or is lost
session_lost ==
    /\ fsm_state # "None"
    /\ Cleared
    /\ inp' = [kind |-> "none", text |-> <<>>]
    /\ reply' = Said("nothing")
    /\ UNCHANGED <<dbVars, pipeVars>>

InitFlow ==
    /\ users = <<>>
    /\ orders = <<>>
    /\ participants = <<>>
    /\ reviews = <<>>
    /\ fsm_state = "None"
    /\ fsm_data = EmptyDict
    /\ inp = [kind |-> "none", text |-> <<>>]
    /\ reply = Said("nothing")
    /\ ai_logs = <<>>
    /\ files = {}
    /\ outbox = EmptyBag
    /\ provider_calls = <<>>
    /\ review_timers = <<>>
    /\ invoices = 0
    /\ approved = 0
    /\ tasks = EmptyBag
    /\ updates = 0
    /\ config = [gpt_book_client |-> FALSE, MANUS_API_KEY |-> FALSE,
                 N8N_SECRET_TOKEN |-> ""]

NextFlow ==
    \/ start_handler
    \/ cancel_handler
    \/ start_order
    \/ process_tariff
    \/ process_family_count
    \/ process_full_name
    \/ process_birth_date
    \/ process_birth_time
    \/ skip_birth_time
    \/ process_birth_place
    \/ skip_birth_place
    \/ process_style
    \/ unhandled_update
    \/ session_lost

SpecFlow == InitFlow /\ [][NextFlow]_vars

---------------------------------------------------------------------------
(* The fulfilment pipeline: what it reads and writes *)

\* more state-changing updates (invoices, payments, callbacks) are explored
\* while fewer than this many have been received
MaxUpdates == 2

OrderIds == 1..Len(orders)
OwnerChat(o) == users[orders[o].user_id].telegram_id

\* PDF_DIR / f"report_{order.order_uuid}.pdf"
PdfPath(uuid) == <<"/app/pdfs/report_">> \o uuid \o <<".pdf">>

\* select(AiLog).where(order_id == o).order_by(AiLog.id.desc()).limit(1)
LatestLog(o) ==
    LET mine == {i \in 1..Len(ai_logs) : ai_logs[i].order_id = o}
    IN IF mine = {} THEN 0 ELSE CHOOSE i \in mine : \A j \in mine : j <= i

\* a unit of work that flushes no status
WriteStatusSkipped(row, mem, value) == row

\* the unit of work flushes an attribute only when its value was changed
\* from what the session holds: mem is order.status as the session holds it
WriteStatus(row, mem, value) ==
    IF mem # value THEN [row EXCEPT !.status = value] ELSE row

\* something the bot sends to a chat
Sent(chat, kind, what, uuid, file, error) ==
    [to |-> chat, kind |-> kind, what |-> what, order_uuid |-> uuid,
     file |-> file, error |-> error]

\* a handler invocation suspended at an await
Task(kind, pc, o, mem, log, text, error) ==
    [kind |-> kind, pc |-> pc, order_id |-> o, mem_status |-> mem,
     log_id |-> log, text |-> text, error |-> error]

Live == BagToSet(tasks)
Spawn(t)    == tasks' = tasks (+) SetToBag({t})
Step(t, t2) == tasks' = (tasks (-) SetToBag({t})) (+) SetToBag({t2})
Finish(t)   == tasks' = tasks (-) SetToBag({t})
Send(m)     == outbox' = outbox (+) SetToBag({m})

\* room for one more explored update
Room == invoices + approved + updates < MaxUpdates

\* generate_pdf writes the file, replacing what was at the path
WriteFile(path, content) ==
    {f \in files : f.path # path} \cup {[path |-> path, content |-> content]}

\* asyncio.create_task(request_review(bot, order.id, user.telegram_id))
ScheduleReview(o) == [review_timers EXCEPT ![o] = @ + 1]

---------------------------------------------------------------------------
(* Payment, handlers/payments.py *)

\* the pay_stars button
process_telegram_stars_payment ==
    \E o \in OrderIds :
        /\ IF orders[o].status # "pending"
           THEN reply' = Said("already_paid_or_cancelled") /\ UNCHANGED invoices
           ELSE Room /\ invoices' = invoices + 1 /\ reply' = Said("invoice_sent")
        /\ UNCHANGED <<dbVars, fsm_state, fsm_data, inp, ai_logs, files, outbox,
                       provider_calls, review_timers, approved, tasks, updates,
                       config>>

\* an answer that looks only for the order
PreCheckoutOkAnyStatus(found, status) == found

\* the answer of process_pre_checkout_query for the order row
PreCheckoutOk(found, status) == found /\ status = "pending"

\* the invoice payloads explored: the one sent for each order, one naming no
\* order, and one without the prefix
Payloads ==
    {<<"order_">> \o orders[o].order_uuid : o \in OrderIds}
        \cup {<<"order_", "z", "9">>, <<"pay_", "a", "1">>}

\* process_pre_checkout_query for a query with the payload;
\* payload.replace("order_", "") takes every occurrence away
pre_checkout_query(payload) ==
    LET order_uuid == SelectSeq(payload, LAMBDA c : c # "order_")
        found      == {o \in OrderIds : orders[o].order_uuid = order_uuid}
        status     == IF found = {} THEN ""
                      ELSE orders[CHOOSE o \in found : TRUE].status
    IN /\ invoices > 0
       /\ IF payload[1] # "order_"
          THEN /\ UNCHANGED <<invoices, approved>>
               /\ reply' = Said("pre_checkout_bad_payload")
          ELSE IF PreCheckoutOk(found # {}, status)
          THEN /\ invoices' = invoices - 1
               /\ approved' = approved + 1
               /\ reply' = Said("pre_checkout_ok")
          ELSE /\ UNCHANGED <<invoices, approved>>
               /\ reply' = Said("pre_checkout_rejected")
       /\ UNCHANGED <<dbVars, fsm_state, fsm_data, inp, ai_logs, files, outbox,
                      provider_calls, review_timers, tasks, updates, config>>

process_pre_checkout_query == \E payload \in Payloads : pre_checkout_query(payload)

\* the row as process_successful_payment commits it
PaidOrder(row, n) ==
    [row EXCEPT !.status = "paid", !.payment_method = "telegram_stars",
                !.payment_id = <<"charge", n>>, !.paid_at = <<n>>]

\* process_successful_payment up to the call of start_ai_generation
process_successful_payment ==
    \E o \in OrderIds :
        /\ approved > 0
        /\ approved' = approved - 1
        /\ updates' = updates + 1
        /\ orders' = [orders EXCEPT ![o] = PaidOrder(@, updates')]
        /\ Send(Sent(OwnerChat(o), "message", "payment_ok",
                     orders[o].order_uuid, NULL, ""))
        /\ Spawn(Task("payment", "processing", o, "paid", 0, "", ""))
        /\ reply' = Said("payment_ok")
        /\ UNCHANGED <<users, participants, reviews, fsm_state, fsm_data, inp, ai_logs,
                       files, provider_calls, review_timers, invoices, config>>

\* the pay_yookassa button: the status is checked and the user is told the
\* channel is not available yet
process_yookassa_payment ==
    \E o \in OrderIds :
        /\ reply' = IF orders[o].status # "pending"
                    THEN Said("already_paid_or_cancelled")
                    ELSE Said("yookassa_in_development")
        /\ UNCHANGED <<dbVars, fsm_state, fsm_data, inp, pipeVars>>

---------------------------------------------------------------------------
(* The payment gateway's callback, webhooks/yookassa.py *)

YooKassaEvent(event, o, payment) ==
    [event |-> event, order_id |-> o, payment_id |-> payment]

\* the notifications explored: a payment of an order succeeded or canceled
YooKassaEvents ==
    {YooKassaEvent(event, o, <<"yk", 1>>) :
        event \in {"payment.succeeded", "payment.canceled"}, o \in OrderIds}

\* yookassa_webhook for the notification ev: it is logged and answered
\* {"status": "ok"}
yookassa_webhook_event(ev) ==
    /\ reply' = [what |-> "http", status |-> 200]
    /\ UNCHANGED <<dbVars, fsm_state, fsm_data, inp, pipeVars>>

\* POST /webhook/yookassa/
yookassa_webhook == \E ev \in YooKassaEvents : yookassa_webhook_event(ev)

---------------------------------------------------------------------------
(* Dispatch, services/ai_service.py start_ai_generation *)

\* order.status = OrderStatus.PROCESSING; commit
dispatch_set_processing ==
    \E t \in Live :
        /\ t.kind = "payment" /\ t.pc = "processing"
        /\ orders' = [orders EXCEPT ![t.order_id] =
                          WriteStatus(@, t.mem_status, "processing")]
        /\ Step(t, [t EXCEPT !.pc = "create_log", !.mem_status = "processing"])
        /\ UNCHANGED <<users, participants, reviews, flowVars, ai_logs, files, outbox,
                       provider_calls, review_timers, invoices, approved,
                       updates, config>>

\* no provider at all: gpt_book_client is None and MANUS_API_KEY is empty
NoProvider == ~config.gpt_book_client /\ ~config.MANUS_API_KEY

\* the provider check and the AiLog row. With no provider the exception is
\* raised before ai_log is assigned: the except block sets order.status on
\* the object, ai_log.status raises UnboundLocalError, and the handler ends
\* with nothing committed and nothing sent
dispatch_create_log ==
    \E t \in Live :
        /\ t.kind = "payment" /\ t.pc = "create_log"
        /\ IF NoProvider
           THEN /\ Finish(t)
                /\ UNCHANGED ai_logs
           ELSE /\ ai_logs' = Append(ai_logs,
                      [order_id |-> t.order_id,
                       provider |-> IF config.gpt_book_client THEN "gpt4" ELSE "manus",
                       status |-> "pending", error_message |-> ""])
                /\ Step(t, [t EXCEPT !.pc = "providers", !.log_id = Len(ai_logs) + 1])
        /\ UNCHANGED <<dbVars, flowVars, files, outbox, provider_calls,
                       review_timers, invoices, approved, updates, config>>

\* outcomes of one provider call
CallOutcomes == {"ok", "raised"}

\* a fallback that is tried whatever the first provider returned
UseManusAlways(gpt_text) == config.MANUS_API_KEY

\* if not result_text and manus_client
UseManus(gpt_text) == gpt_text = "" /\ config.MANUS_API_KEY

\* the GPT call, the Manus fallback, and the AiLog update that follows
dispatch_call_providers ==
    \E t \in Live, gpt \in CallOutcomes, manus \in CallOutcomes :
        /\ t.kind = "payment" /\ t.pc = "providers"
        /\ config.gpt_book_client \/ gpt = "ok"
        /\ LET o         == t.order_id
               gpt_text  == IF config.gpt_book_client /\ gpt = "ok"
                            THEN "report_text" ELSE ""
               use_manus == UseManus(gpt_text)
               result    == IF gpt_text # "" THEN gpt_text
                            ELSE IF use_manus /\ manus = "ok"
                                 THEN "manus_task_id" ELSE ""
               provider  == IF gpt_text # "" THEN "gpt4" ELSE "manus"
           IN /\ use_manus \/ manus = "ok"
              /\ provider_calls' = [provider_calls EXCEPT ![o] =
                     [gpt4  |-> @.gpt4 + (IF config.gpt_book_client THEN 1 ELSE 0),
                      manus |-> @.manus + (IF use_manus THEN 1 ELSE 0)]]
              /\ IF result = ""
                 THEN /\ Step(t, [t EXCEPT !.pc = "fail",
                                           !.error = "all_providers_unavailable"])
                      /\ UNCHANGED ai_logs
                 ELSE /\ ai_logs' = [ai_logs EXCEPT ![t.log_id] =
                              [@ EXCEPT !.provider = provider, !.status = "success"]]
                      /\ Step(t, [t EXCEPT !.pc = "render", !.text = result])
        /\ UNCHANGED <<dbVars, flowVars, files, outbox, review_timers, invoices,
                       approved, updates, config>>

\* generate_pdf(order, participants, content)
dispatch_render ==
    \E t \in Live, out \in CallOutcomes :
        /\ t.kind = "payment" /\ t.pc = "render"
        /\ IF out = "ok"
           THEN /\ files' = WriteFile(PdfPath(orders[t.order_id].order_uuid), t.text)
                /\ Step(t, [t EXCEPT !.pc = "complete"])
           ELSE /\ UNCHANGED files
                /\ Step(t, [t EXCEPT !.pc = "fail", !.error = "render_error"])
        /\ UNCHANGED <<dbVars, flowVars, ai_logs, outbox, provider_calls,
                       review_timers, invoices, approved, updates, config>>

\* the row as a completion commits it
CompletedOrder(row, mem, n) ==
    [WriteStatus(row, mem, "completed") EXCEPT
        !.pdf_url = PdfPath(row.order_uuid), !.completed_at = <<n>>]

\* order.status = COMPLETED; commit; bot.send_document; request_review
dispatch_complete ==
    \E t \in Live, out \in CallOutcomes :
        /\ t.kind = "payment" /\ t.pc = "complete"
        /\ LET o == t.order_id IN
           /\ orders' = [orders EXCEPT ![o] = CompletedOrder(@, t.mem_status, updates)]
           /\ IF out = "ok"
              THEN /\ Send(Sent(OwnerChat(o), "document", "report_ready",
                                orders[o].order_uuid, PdfPath(orders[o].order_uuid), ""))
                   /\ review_timers' = ScheduleReview(o)
                   /\ Finish(t)
              ELSE /\ UNCHANGED <<outbox, review_timers>>
                   /\ Step(t, [t EXCEPT !.pc = "fail", !.mem_status = "completed",
                                        !.error = "send_error"])
        /\ UNCHANGED <<users, participants, reviews, flowVars, ai_logs, files,
                       provider_calls, invoices, approved, updates, config>>

\* the except block: FAILED, the AiLog row failed, the user told
dispatch_fail ==
    \E t \in Live :
        /\ t.kind = "payment" /\ t.pc = "fail"
        /\ LET o == t.order_id IN
           /\ orders' = [orders EXCEPT ![o] = WriteStatus(@, t.mem_status, "failed")]
           /\ ai_logs' = [ai_logs EXCEPT ![t.log_id] =
                              [@ EXCEPT !.status = "failed", !.error_message = t.error]]
           /\ Send(Sent(OwnerChat(o), "message", "generation_failed",
                        orders[o].order_uuid, NULL, ""))
           /\ Finish(t)
        /\ UNCHANGED <<users, participants, reviews, flowVars, files, provider_calls,
                       review_timers, invoices, approved, updates, config>>

---------------------------------------------------------------------------
(* Generation callbacks, handlers/n8n_webhook.py and
   services/n8n_result_handler.py *)

\* verify_n8n_token: the HTTP status it raises, 200 when it returns
VerifyN8nToken(token) ==
    IF config.N8N_SECRET_TOKEN = "" THEN 200
    ELSE IF token = "" THEN 401
    ELSE IF token # config.N8N_SECRET_TOKEN THEN 403
    ELSE 200

Http(code) == [what |-> "http", status |-> code]

\* an update of the row's status that leaves its message as it was
MarkLatestLogStatusOnly(o, status, message) ==
    IF LatestLog(o) = 0 THEN ai_logs
    ELSE [ai_logs EXCEPT ![LatestLog(o)] = [@ EXCEPT !.status = status]]

\* the latest AiLog row of the order, if any, gets the status and message
MarkLatestLog(o, status, message) ==
    IF LatestLog(o) = 0 THEN ai_logs
    ELSE [ai_logs EXCEPT ![LatestLog(o)] =
             [@ EXCEPT !.status = status,
                       !.error_message = IF status = "failed" THEN message ELSE @]]

\* a request without effect: rejected, malformed, or naming no order
n8n_request_dropped(code) ==
    /\ reply' = Http(code)
    /\ UNCHANGED <<dbVars, fsm_state, fsm_data, inp, pipeVars>>

\* handle_n8n_result up to the first commit: the latest AiLog row is success
n8n_result_begin(o, text) ==
    /\ Room
    /\ updates' = updates + 1
    /\ ai_logs' = MarkLatestLog(o, "success", "")
    /\ Spawn(Task("n8n_result", "render", o, orders[o].status, 0, text, ""))
    /\ reply' = Said("nothing")
    /\ UNCHANGED <<dbVars, fsm_state, fsm_data, inp, files, outbox,
                   provider_calls, review_timers, invoices, approved, config>>

\* handle_n8n_error up to the first commit: the order is FAILED
n8n_error_begin(o, message) ==
    /\ Room
    /\ updates' = updates + 1
    /\ orders' = [orders EXCEPT ![o] = WriteStatus(@, @.status, "failed")]
    /\ Spawn(Task("n8n_error", "fail_log", o, "failed", 0, "", message))
    /\ reply' = Said("nothing")
    /\ UNCHANGED <<users, participants, reviews, fsm_state, fsm_data, inp, ai_logs,
                   files, outbox, provider_calls, review_timers, invoices,
                   approved, config>>

Request(o, token, status, text, error) ==
    [order_id |-> o, token |-> token, status |-> status, text |-> text,
     error |-> error]

\* the requests explored: every body with the right token for an order that
\* exists, the two accepted bodies for one that does not, and a well-formed
\* success with the token missing or wrong
N8nRequests ==
    LET good == "secret"
        none == Len(orders) + 1
    IN {Request(o, good, "success", text, "") :
            o \in OrderIds, text \in {"", "n8n_report"}}
       \cup {Request(o, good, "failed", "", error) :
                o \in OrderIds, error \in {"", "provider timeout"}}
       \cup {Request(o, good, "unknown", "", "") : o \in OrderIds}
       \cup {Request(none, good, "success", "n8n_report", ""),
             Request(none, good, "failed", "", "provider timeout")}
       \cup {Request(o, token, "success", "n8n_report", "") :
                o \in OrderIds, token \in {"", "wrong"}}

\* a body check that takes any text, the empty one included
TextMissingNever(text) == FALSE

\* `not request_data.text`: the text is absent or empty
TextMissing(text) == text = ""

\* receive_n8n_result for the request r
receive_n8n_request(r) ==
    IF VerifyN8nToken(r.token) # 200
    THEN n8n_request_dropped(VerifyN8nToken(r.token))
    ELSE IF r.status = "success"
    THEN IF TextMissing(r.text) THEN n8n_request_dropped(500)
         ELSE IF r.order_id \notin OrderIds THEN n8n_request_dropped(200)
         ELSE n8n_result_begin(r.order_id, r.text)
    ELSE IF r.status = "failed"
    THEN IF r.order_id \notin OrderIds THEN n8n_request_dropped(200)
         ELSE n8n_error_begin(r.order_id, IF r.error # "" THEN r.error
                                          ELSE "Unknown error from N8N")
    ELSE n8n_request_dropped(500)

\* POST /webhook/n8n/result
receive_n8n_result == \E r \in N8nRequests : receive_n8n_request(r)

\* handle_n8n_result: generate_pdf
n8n_result_render ==
    \E t \in Live, out \in CallOutcomes :
        /\ t.kind = "n8n_result" /\ t.pc = "render"
        /\ IF out = "ok"
           THEN /\ files' = WriteFile(PdfPath(orders[t.order_id].order_uuid), t.text)
                /\ Step(t, [t EXCEPT !.pc = "complete"])
                /\ UNCHANGED reply
           ELSE /\ UNCHANGED files
                /\ Finish(t)
                /\ reply' = Http(500)
        /\ UNCHANGED <<dbVars, fsm_state, fsm_data, inp, ai_logs, outbox,
                       provider_calls, review_timers, invoices, approved,
                       updates, config>>

\* handle_n8n_result: COMPLETED; commit; bot.send_document; request_review
n8n_result_complete ==
    \E t \in Live, out \in CallOutcomes :
        /\ t.kind = "n8n_result" /\ t.pc = "complete"
        /\ LET o == t.order_id IN
           /\ orders' = [orders EXCEPT ![o] = CompletedOrder(@, t.mem_status, updates)]
           /\ IF out = "ok"
              THEN /\ Send(Sent(OwnerChat(o), "document", "report_ready",
                                orders[o].order_uuid, PdfPath(orders[o].order_uuid), ""))
                   /\ review_timers' = ScheduleReview(o)
                   /\ reply' = Http(200)
              ELSE /\ UNCHANGED <<outbox, review_timers>>
                   /\ reply' = Http(500)
           /\ Finish(t)
        /\ UNCHANGED <<users, participants, reviews, fsm_state, fsm_data, inp, ai_logs,
                       files, provider_calls, invoices, approved, updates, config>>

\* handle_n8n_error: the latest AiLog row failed; the user told
n8n_error_fail_log ==
    \E t \in Live :
        /\ t.kind = "n8n_error" /\ t.pc = "fail_log"
        /\ LET o == t.order_id IN
           /\ ai_logs' = MarkLatestLog(o, "failed", t.error)
           /\ Send(Sent(OwnerChat(o), "message", "generation_failed",
                        orders[o].order_uuid, NULL, t.error))
           /\ reply' = Http(200)
           /\ Finish(t)
        /\ UNCHANGED <<dbVars, fsm_state, fsm_data, inp, files, provider_calls,
                       review_timers, invoices, approved, updates, config>>

---------------------------------------------------------------------------
(* Re-delivery, handlers/commands.py download_handler *)

Chats == {FlowUser, "tg2"}

\* SQL LIKE: "%" stands for any run of characters, "_" for any one
RECURSIVE Like(_, _)
Like(t, p) ==
    IF Len(p) = 0 THEN Len(t) = 0
    ELSE IF p[1] = "%"
         THEN \E k \in 0..Len(t) : Like(SubSeq(t, k + 1, Len(t)), Tail(p))
    ELSE /\ Len(t) > 0
         /\ p[1] = "_" \/ p[1] = t[1]
         /\ Like(Tail(t), Tail(p))

\* a search that looks among the orders of every user
DownloadMatchesAnyOwner(chat, arg) ==
    {o \in OrderIds : Like(orders[o].order_uuid, arg \o <<"%">>)}

\* Order.order_uuid.like(f"{order_id}%") among the requester's orders
DownloadMatches(chat, arg) ==
    {o \in OrderIds : OwnerChat(o) = chat
                      /\ Like(orders[o].order_uuid, arg \o <<"%">>)}

FileExists(path) == \E f \in files : f.path = path

Answer(chat, what, file) == [to |-> chat, what |-> what, file |-> file]

\* what download_handler answers for the matched order row
DownloadAnswer(chat, row) ==
    IF row.status # "completed" THEN Answer(chat, "not_ready", NULL)
    ELSE IF row.pdf_url = NULL \/ ~FileExists(row.pdf_url)
         THEN Answer(chat, "file_not_found", NULL)
    ELSE Answer(chat, "document", row.pdf_url)

\* the identifiers asked for: a prefix of an order_uuid, and a wildcard
DownloadArgs == {<<"a">>, <<"%">>}

\* a re-delivery that stamps the row it has read
DownloadedRowStamped(row) == [row EXCEPT !.completed_at = <<0>>]

\* the matched row after download_handler: it is read and never assigned
DownloadedRow(row) == row

download_handler ==
    \E chat \in Chats, arg \in DownloadArgs :
        /\ LET m == DownloadMatches(chat, arg) IN
           IF m = {}
           THEN /\ reply' = Answer(chat, "order_not_found", NULL)
                /\ UNCHANGED orders
           ELSE IF Cardinality(m) > 1
           THEN /\ reply' = Answer(chat, "raised:MultipleResultsFound", NULL)
                /\ UNCHANGED orders
           ELSE LET o   == CHOOSE x \in m : TRUE
                    ans == DownloadAnswer(chat, orders[o])
                IN /\ \/ reply' = ans
                      \/ /\ ans.what = "document"
                         /\ reply' = Answer(chat, "send_error", NULL)
                   /\ orders' = [orders EXCEPT ![o] = DownloadedRow(@)]
        /\ UNCHANGED <<users, participants, reviews, fsm_state, fsm_data, inp, pipeVars>>

---------------------------------------------------------------------------
(* The pipeline's specification: it starts from an order as process_style
   commits it *)

SampleParticipant ==
    [full_name |-> <<"I", "v", "a", "n">>,
     birth_date |-> <<"2", "5", ".", "1", "2", ".", "1", "9", "9", "0">>,
     birth_time |-> None,
     birth_place |-> <<"O", "m", "s", "k">>]

\* participants_data of a finished session: a family is one of three
SampleData(tariff) ==
    [i \in 1..(IF tariff = "family" THEN 3 ELSE TariffParticipants(tariff).v)
        |-> SampleParticipant]

\* the configurations explored: each provider present and absent, the
\* callback secret set and left at its default
Config(gpt, manus, token) ==
    [gpt_book_client |-> gpt, MANUS_API_KEY |-> manus, N8N_SECRET_TOKEN |-> token]

Configs ==
    {Config(TRUE, TRUE, "secret"), Config(TRUE, FALSE, ""),
     Config(FALSE, TRUE, ""), Config(FALSE, FALSE, "secret")}

\* the first chat user has committed an order of the tariff; nothing of the
\* pipeline has run
PipelineIdle(tariff, cfg) ==
    /\ users = <<[telegram_id |-> FlowUser], [telegram_id |-> "tg2"]>>
    /\ orders = <<NewOrder(1, 1, tariff, "shamanic")>>
    /\ participants = NewParticipants(1, SampleData(tariff), tariff)
    /\ reviews = <<>>
    /\ inp = [kind |-> "none", text |-> <<>>]
    /\ reply = Said("nothing")
    /\ ai_logs = <<>>
    /\ files = {}
    /\ outbox = EmptyBag
    /\ provider_calls = <<[gpt4 |-> 0, manus |-> 0]>>
    /\ review_timers = <<0>>
    /\ invoices = 0
    /\ approved = 0
    /\ tasks = EmptyBag
    /\ updates = 0
    /\ config = cfg

\* the order has just been committed: process_style cleared the session
OrderCreated(tariff, cfg) ==
    /\ PipelineIdle(tariff, cfg)
    /\ fsm_state = "None"
    /\ fsm_data = EmptyDict

InitPipe ==
    \E tariff \in {"pair"}, cfg \in Configs : OrderCreated(tariff, cfg)

NextPipe ==
    \/ process_telegram_stars_payment
    \/ process_pre_checkout_query
    \/ process_successful_payment
    \/ dispatch_set_processing
    \/ dispatch_create_log
    \/ dispatch_call_providers
    \/ dispatch_render
    \/ dispatch_complete
    \/ dispatch_fail
    \/ receive_n8n_result
    \/ n8n_result_render
    \/ n8n_result_complete
    \/ n8n_error_fail_log
    \/ download_handler

SpecPipe == InitPipe /\ [][NextPipe]_vars

\* the pipeline for an order of each tariff, with the GPT client configured
InitLedger ==
    \E tariff \in Tariffs : OrderCreated(tariff, Config(TRUE, FALSE, "secret"))

SpecLedger == InitLedger /\ [][NextPipe]_vars

\* the session after /new and a tariff button: process_tariff has stored the
\* tariff and asks the first name
SessionStarted(tariff) ==
    [tariff |-> tariff, participants_data |-> <<>>, current_participant |-> 0,
     participants_count |-> TariffParticipants(tariff)]

\* /cancel beside payment and dispatch: the user has an order, and either no
\* session or the session of a next order just begun
InitDesk ==
    \E cfg \in Configs, session \in BOOLEAN :
        /\ PipelineIdle("pair", cfg)
        /\ IF session
           THEN /\ fsm_state = "entering_full_name"
                /\ fsm_data = SessionStarted("quick")
           ELSE /\ fsm_state = "None"
                /\ fsm_data = EmptyDict

NextDesk ==
    \/ cancel_handler
    \/ process_telegram_stars_payment
    \/ process_pre_checkout_query
    \/ process_successful_payment
    \/ dispatch_set_processing
    \/ dispatch_create_log
    \/ dispatch_call_providers
    \/ dispatch_render
    \/ dispatch_complete
    \/ dispatch_fail

SpecDesk == InitDesk /\ [][NextDesk]_vars

\* the order after a confirmed payment and the first commit of
\* start_ai_generation; the clock counts from the payment
ProcessingOrder(row) == [PaidOrder(row, 0) EXCEPT !.status = "processing"]

\* callbacks for an order in PROCESSING: its payment is confirmed and its
\* dispatch has written the AiLog row and waits for the provider's answer
\* (with no provider configured the dispatch has ended and left no row)
InitRace ==
    \E cfg \in Configs :
        /\ users = <<[telegram_id |-> FlowUser], [telegram_id |-> "tg2"]>>
        /\ orders = <<ProcessingOrder(NewOrder(1, 1, "pair", "shamanic"))>>
        /\ participants = NewParticipants(1, SampleData("pair"), "pair")
        /\ reviews = <<>>
        /\ fsm_state = "None"
        /\ fsm_data = EmptyDict
        /\ inp = [kind |-> "none", text |-> <<>>]
        /\ reply = Said("payment_ok")
        /\ ai_logs = IF ~cfg.gpt_book_client /\ ~cfg.MANUS_API_KEY THEN <<>>
                     ELSE <<[order_id |-> 1,
                             provider |-> IF cfg.gpt_book_client
                                          THEN "gpt4" ELSE "manus",
                             status |-> "pending", error_message |-> ""]>>
        /\ files = {}
        /\ outbox = SetToBag({Sent(FlowUser, "message", "payment_ok",
                                   UuidOf(1), NULL, "")})
        /\ provider_calls = <<[gpt4 |-> 0, manus |-> 0]>>
        /\ review_timers = <<0>>
        /\ invoices = 0
        /\ approved = 0
        /\ tasks = IF ~cfg.gpt_book_client /\ ~cfg.MANUS_API_KEY THEN EmptyBag
                   ELSE SetToBag({Task("payment", "providers", 1, "processing",
                                       1, "", "")})
        /\ updates = 0
        /\ config = cfg

NextRace ==
    \/ receive_n8n_result
    \/ n8n_result_render
    \/ n8n_result_complete
    \/ n8n_error_fail_log

SpecRace == InitRace /\ [][NextRace]_vars

\* the two payment channels beside the dispatch they are to trigger
NextGateway ==
    \/ process_telegram_stars_payment
    \/ process_pre_checkout_query
    \/ process_successful_payment
    \/ process_yookassa_payment
    \/ yookassa_webhook
    \/ dispatch_set_processing
    \/ dispatch_create_log
    \/ dispatch_call_providers
    \/ dispatch_render
    \/ dispatch_complete
    \/ dispatch_fail

SpecGateway == InitPipe /\ [][NextGateway]_vars

\* the process stops and main() runs again: the tables, the files and the
\* FSM storage are as they were, every handler that was in flight is gone,
\* and NumerologBot.start looks for no order to resume
process_restart ==
    /\ tasks # EmptyBag
    /\ tasks' = EmptyBag
    /\ UNCHANGED <<dbVars, flowVars, ai_logs, files, outbox, provider_calls,
                   review_timers, invoices, approved, updates, config>>

\* the steps the event loop takes by itself: every handler in flight is
\* resumed when what it awaits is done
HandlerSteps ==
    \/ dispatch_set_processing
    \/ dispatch_create_log
    \/ dispatch_call_providers
    \/ dispatch_render
    \/ dispatch_complete
    \/ dispatch_fail
    \/ n8n_result_render
    \/ n8n_result_complete
    \/ n8n_error_fail_log

NextRestart ==
    \/ NextPipe
    \/ process_restart

SpecRestart == InitPipe /\ [][NextRestart]_vars /\ WF_vars(HandlerSteps)

---------------------------------------------------------------------------
(* Reviews, handlers/reviews.py *)

\* the stars pressed and the comments written
Ratings      == {1, 5}
CommentTexts == {<<"/", "s", "k", "i", "p">>, <<"g", "o", "o", "d">>}

\* an invocation of a review handler suspended at an await
ReviewTask(kind, o, user_id, rating, text) ==
    [kind |-> kind, order_id |-> o, user_id |-> user_id, rating |-> rating,
     text |-> text]

\* the Review row process_review_comment adds
NewReview(o, user_id, rating, text) ==
    [order_id |-> o, user_id |-> user_id, rating |-> rating,
     comment |-> IF text = <<"/", "s", "k", "i", "p">> THEN NULL ELSE text]

\* process_review_rating up to state.update_data: the order is looked up
\* among the presser's orders, then a Review of the order is looked for
process_review_rating ==
    \E chat \in Chats, o \in 1..(Len(orders) + 1), rating \in Ratings :
        /\ Route(fsm_state, Callback(<<"review", o, rating>>))
               = "process_review_rating"
        /\ BagCardinality(tasks) < MaxUpdates
        /\ IF o \notin OrderIds \/ OwnerChat(o) # chat
           THEN reply' = Answer(chat, "order_not_found", NULL) /\ UNCHANGED tasks
           ELSE IF \E i \in 1..Len(reviews) : reviews[i].order_id = o
           THEN reply' = Answer(chat, "already_reviewed", NULL) /\ UNCHANGED tasks
           ELSE /\ reply' = Said("nothing")
                /\ Spawn(ReviewTask("review_rating", o, orders[o].user_id,
                                    rating, <<>>))
        /\ UNCHANGED <<dbVars, fsm_state, fsm_data, inp, ai_logs, files, outbox,
                       provider_calls, review_timers, invoices, approved,
                       updates, config>>

\* process_review_rating from state.update_data to set_state
review_rating_store ==
    \E t \in Live :
        /\ t.kind = "review_rating"
        /\ fsm_data' = Upd(Upd(Upd(fsm_data, "order_id", t.order_id),
                               "user_id", t.user_id), "rating", t.rating)
        /\ fsm_state' = "waiting_for_comment"
        /\ reply' = Said("ask_comment")
        /\ Finish(t)
        /\ UNCHANGED <<dbVars, inp, ai_logs, files, outbox, provider_calls,
                       review_timers, invoices, approved, updates, config>>

\* process_review_comment up to state.get_data
process_review_comment ==
    \E text \in CommentTexts :
        /\ Route(fsm_state, Message(text)) = "process_review_comment"
        /\ Room
        /\ updates' = updates + 1
        /\ IF {"order_id", "user_id", "rating"} \subseteq DOMAIN fsm_data
           THEN /\ Spawn(ReviewTask("review_comment", fsm_data["order_id"],
                                    fsm_data["user_id"], fsm_data["rating"], text))
                /\ SessionKept
                /\ reply' = Said("nothing")
           ELSE \* KeyError: the except block answers and clears the state
                /\ UNCHANGED tasks
                /\ Cleared
                /\ reply' = Said("review_error")
        /\ UNCHANGED <<dbVars, inp, ai_logs, files, outbox, provider_calls,
                       review_timers, invoices, approved, config>>

\* process_review_comment: the Review is committed, the user thanked and the
\* state cleared; when the sending raises, in the try and in the except
\* block, the handler ends before state.clear()
review_comment_save ==
    \E t \in Live, out \in CallOutcomes :
        /\ t.kind = "review_comment"
        /\ reviews' = Append(reviews,
                             NewReview(t.order_id, t.user_id, t.rating, t.text))
        /\ IF out = "ok"
           THEN Cleared /\ reply' = Said("review_thanks")
           ELSE SessionKept /\ reply' = Said("raised:send_error")
        /\ Finish(t)
        /\ UNCHANGED <<users, orders, participants, inp, ai_logs, files, outbox,
                       provider_calls, review_timers, invoices, approved,
                       updates, config>>

\* the report of the first user's order was generated and delivered, and
\* request_review has sent the stars to press
InitReview ==
    /\ users = <<[telegram_id |-> FlowUser], [telegram_id |-> "tg2"]>>
    /\ orders = <<CompletedOrder(ProcessingOrder(NewOrder(1, 1, "pair", "shamanic")),
                                 "processing", 0)>>
    /\ participants = NewParticipants(1, SampleData("pair"), "pair")
    /\ reviews = <<>>
    /\ fsm_state = "None"
    /\ fsm_data = EmptyDict
    /\ inp = [kind |-> "none", text |-> <<>>]
    /\ reply = Said("nothing")
    /\ ai_logs = <<[order_id |-> 1, provider |-> "gpt4", status |-> "success",
                    error_message |-> ""]>>
    /\ files = {[path |-> PdfPath(UuidOf(1)), content |-> "report_text"]}
    /\ outbox = SetToBag({
           Sent(FlowUser, "message", "payment_ok", UuidOf(1), NULL, ""),
           Sent(FlowUser, "document", "report_ready", UuidOf(1),
                PdfPath(UuidOf(1)), ""),
           Sent(FlowUser, "message", "review_request", UuidOf(1), NULL, "")})
    /\ provider_calls = <<[gpt4 |-> 1, manus |-> 0]>>
    /\ review_timers = <<1>>
    /\ invoices = 0
    /\ approved = 0
    /\ tasks = EmptyBag
    /\ updates = 0
    /\ config = Config(TRUE, FALSE, "secret")

NextReview ==
    \/ process_review_rating
    \/ review_rating_store
    \/ process_review_comment
    \/ review_comment_save

SpecReview == InitReview /\ [][NextReview]_vars

---------------------------------------------------------------------------
(* Waiting for a provider: services/gpt_with_book.py, services/ai_fallback.py
   and services/n8n_client.py *)

\* max_wait of GPTAssistantWithBook.generate_report, in seconds
max_wait == 300

\* what runs.retrieve may report: a run that goes on, and the ways it ends;
\* "incomplete" is the end of a run that reached max_completion_tokens
RunStatuses == {"in_progress", "completed", "failed", "incomplete"}

\* one turn of the polling loop of the waiting call t, which sleeps the given
\* seconds and gives up once it has waited the limit (a limit of 0 is a loop
\* without one); t.waited counts the seconds slept
PollOnce(t, status, sleep, limit) ==
    IF status = "completed" THEN [t EXCEPT !.pc = "text"]
    ELSE IF status = "failed"
    THEN [t EXCEPT !.pc = "raised", !.error = "run_failed"]
    ELSE IF limit > 0 /\ t.waited + sleep >= limit
    THEN [t EXCEPT !.pc = "raised", !.error = "timeout",
                   !.waited = @ + sleep]
    ELSE [t EXCEPT !.waited = @ + sleep]

\* GPTAssistantWithBook.generate_report: while waited < max_wait, sleep 3
GPTAssistantWithBook_generate_report ==
    \E t \in Live, status \in RunStatuses :
        /\ t.kind = "gpt_with_book" /\ t.pc = "polling"
        /\ Step(t, PollOnce(t, status, 3, max_wait))
        /\ UNCHANGED <<dbVars, flowVars, ai_logs, files, outbox, provider_calls,
                       review_timers, invoices, approved, updates, config>>

\* GPT4Client._generate_with_assistant: while True, sleep 2. The loop has no
\* count of its own; it is followed for twice max_wait
GPT4Client_generate_with_assistant ==
    \E t \in Live, status \in RunStatuses :
        /\ t.kind = "gpt4_assistant" /\ t.pc = "polling"
        /\ t.waited < 2 * max_wait
        /\ Step(t, PollOnce(t, status, 2, 0))
        /\ UNCHANGED <<dbVars, flowVars, ai_logs, files, outbox, provider_calls,
                       review_timers, invoices, approved, updates, config>>

\* N8nClient.generate_report: one POST under httpx's timeout
N8nClient_generate_report ==
    \E t \in Live, out \in {"text", "timeout", "http_error"} :
        /\ t.kind = "n8n" /\ t.pc = "polling"
        /\ Step(t, IF out = "text" THEN [t EXCEPT !.pc = "text"]
                   ELSE [t EXCEPT !.pc = "raised", !.error = out])
        /\ UNCHANGED <<dbVars, flowVars, ai_logs, files, outbox, provider_calls,
                       review_timers, invoices, approved, updates, config>>

\* a PROCESSING order whose dispatch has called one of the clients
InitWait ==
    \E kind \in {"gpt_with_book", "gpt4_assistant", "n8n"} :
        /\ users = <<[telegram_id |-> FlowUser], [telegram_id |-> "tg2"]>>
        /\ orders = <<ProcessingOrder(NewOrder(1, 1, "pair", "shamanic"))>>
        /\ participants = NewParticipants(1, SampleData("pair"), "pair")
        /\ reviews = <<>>
        /\ fsm_state = "None"
        /\ fsm_data = EmptyDict
        /\ inp = [kind |-> "none", text |-> <<>>]
        /\ reply = Said("payment_ok")
        /\ ai_logs = <<[order_id |-> 1, provider |-> "gpt4",
                        status |-> "pending", error_message |-> ""]>>
        /\ files = {}
        /\ outbox = SetToBag({Sent(FlowUser, "message", "payment_ok",
                                   UuidOf(1), NULL, "")})
        /\ provider_calls = <<[gpt4 |-> 1, manus |-> 0]>>
        /\ review_timers = <<0>>
        /\ invoices = 0
        /\ approved = 0
        /\ tasks = SetToBag({[kind |-> kind, pc |-> "polling", waited |-> 0,
                               error |-> ""]})
        /\ updates = 0
        /\ config = Config(TRUE, FALSE, "secret")

NextWait ==
    \/ GPTAssistantWithBook_generate_report
    \/ GPT4Client_generate_with_assistant
    \/ N8nClient_generate_report

SpecWait == InitWait /\ [][NextWait]_vars

---------------------------------------------------------------------------
(* Properties of the collection flow, checked under SpecFlow *)

\* the OrderParticipant rows of order o among rows
RowsOf(o, rows) == {i \in 1..Len(rows) : rows[i].order_id = o}

\* the session stands at style selection with every required participant
\* collected
SessionComplete ==
    /\ fsm_state = "choosing_style"
    /\ Get(fsm_data, "participants_count", PyNone).k = "int"
    /\ Len(Get(fsm_data, "participants_data", <<>>)) = fsm_data["participants_count"].v

\* C7: storage gets Order and OrderParticipant rows only in the step by which
\* process_style commits, taken at style selection with every required
\* participant collected; every other step of the flow (/cancel, /new and
\* /start mid-flow included) leaves storage without anything of the session.
C7_NothingStoredBeforeStyle ==
    [][ (orders' # orders \/ participants' # participants) =>
            /\ SessionComplete
            /\ inp'.kind = "callback"
            /\ inp'.text[1] = "style"
            /\ reply' = Said("order_created") ]_vars

\* C7: both participants of a pair are collected, the style is not chosen
\* yet, and storage is empty
C7_CollectedNotStored ==
    /\ SessionComplete
    /\ fsm_data["participants_count"].v = 2
    /\ orders = <<>>
    /\ participants = <<>>

\* C8: the step that makes an Order visible makes all its participants
\* visible with it (no state holds an order without participants) and leaves
\* the session cleared; no step of the flow, clearing or losing the session
\* included, removes or alters a committed row.
C8_CommittedTogether ==
    [][ /\ \A o \in 1..Len(orders') : RowsOf(o, participants') # {}
        /\ Len(orders') > Len(orders) =>
              /\ Len(orders') = Len(orders) + 1
              /\ Cardinality(RowsOf(Len(orders'), participants'))
                    = fsm_data["participants_count"].v
              /\ fsm_state' = "None"
              /\ fsm_data' = EmptyDict
        /\ Len(orders') >= Len(orders)
        /\ SubSeq(orders', 1, Len(orders)) = orders
        /\ Len(participants') >= Len(participants)
        /\ SubSeq(participants', 1, Len(participants)) = participants ]_vars

\* C8: a family order of three is in storage with its three participants and
\* the session was cleared again by /start after the commit
C8_OrderOutlivesSession ==
    /\ Len(orders) = 1
    /\ orders[1].tariff = "family"
    /\ Cardinality(RowsOf(1, participants)) = 3
    /\ inp = Message(CmdStart)
    /\ fsm_state = "None"

\* C9: every persisted order has as many participants as its tariff asks:
\* one for quick and deep, two for pair, three to five for family.
C9_ParticipantsMatchTariff ==
    \A o \in 1..Len(orders) :
        LET n == Cardinality(RowsOf(o, participants)) IN
        CASE orders[o].tariff \in {"quick", "deep"} -> n = 1
          [] orders[o].tariff = "pair" -> n = 2
          [] orders[o].tariff = "family" -> n \in 3..5

\* C9: a family order persisted with five participants
C9_FamilyOfFive ==
    /\ Len(orders) = 1
    /\ orders[1].tariff = "family"
    /\ Cardinality(RowsOf(1, participants)) = 5

\* C10: at the family count step a decimal count is accepted exactly when it
\* is 3, 4 or 5; any other is answered with the re-prompt and leaves the
\* session state and data as they were. For quick, deep and pair
\* process_tariff sets the count (1, 1, 2) and goes on to the first name: the
\* count step is entered for the family tariff only.
C10_FamilyCountRange ==
    [][ /\ (fsm_state = "asking_family_count" /\ inp'.kind = "message"
              /\ IntParses(inp'.text)) =>
            IF ToInt(inp'.text) \in 3..5
            THEN /\ fsm_state' = "entering_full_name"
                 /\ fsm_data' = Upd(fsm_data, "participants_count",
                                    PyInt(ToInt(inp'.text)))
            ELSE /\ reply' = Said("family_count_out_of_range")
                 /\ fsm_state' = "asking_family_count"
                 /\ fsm_data' = fsm_data
        /\ (fsm_state = "choosing_tariff" /\ inp'.kind = "callback"
              /\ inp'.text[1] = "tariff" /\ inp'.text[2] # "family") =>
            /\ fsm_state' = "entering_full_name"
            /\ fsm_data'["participants_count"]
                  = PyInt(IF inp'.text[2] = "pair" THEN 2 ELSE 1)
        /\ fsm_state' = "asking_family_count" => fsm_data'["tariff"] = "family"
      ]_vars

\* C10: a count of six was answered with the re-prompt at the count step
C10_SixRejected ==
    /\ inp = Message(<<"6">>)
    /\ reply = Said("family_count_out_of_range")
    /\ fsm_state = "asking_family_count"

\* the states of the per-participant sub-flow, in the order they are passed
SubFlow == <<"entering_full_name", "entering_birth_date",
             "entering_birth_time", "entering_birth_place">>

InSubFlow(state) == \E i \in 1..4 : SubFlow[i] = state

\* C11: inside the sub-flow the count N is set and the cursor is one of
\* 0..N-1, with as many participants collected as the cursor has passed; the
\* sub-flow is entered at the full name with the cursor at 0 and passed in
\* the order name, date, time, place; the cursor only ever moves by +1, and
\* only when a birth-place step completes below index N-1; style selection
\* is entered by the birth-place step at index N-1 (with N participants
\* collected) and by no other step.
C11_CursorInOrder ==
    [][ LET N    == Get(fsm_data, "participants_count", PyNone)
            cur  == Get(fsm_data, "current_participant", 0)
            cur2 == Get(fsm_data', "current_participant", 0)
            pd   == Get(fsm_data, "participants_data", <<>>)
            pd2  == Get(fsm_data', "participants_data", <<>>)
            place_done ==
                /\ fsm_state = "entering_birth_place"
                /\ \/ inp' = Callback(<<"skip">>)
                   \/ inp'.kind = "message" /\ inp'.text \in PlaceTexts
        IN /\ InSubFlow(fsm_state) =>
                /\ N.k = "int"
                /\ cur \in 0..(N.v - 1)
                /\ Len(pd) = IF fsm_state = "entering_full_name"
                             THEN cur ELSE cur + 1
           /\ place_done =>
                IF cur = N.v - 1
                THEN fsm_state' = "choosing_style" /\ cur2 = cur /\ Len(pd2) = N.v
                ELSE fsm_state' = "entering_full_name" /\ cur2 = cur + 1
           /\ (fsm_state' = "choosing_style" /\ fsm_state # "choosing_style") =>
                place_done /\ cur = N.v - 1
           /\ (InSubFlow(fsm_state) /\ InSubFlow(fsm_state') /\ cur2 # cur) =>
                place_done /\ cur2 = cur + 1
           /\ (InSubFlow(fsm_state) /\ InSubFlow(fsm_state')
                 /\ fsm_state' # fsm_state) =>
                \E i \in 1..4 : /\ SubFlow[i] = fsm_state
                                /\ SubFlow[(i % 4) + 1] = fsm_state'
           /\ (~InSubFlow(fsm_state) /\ InSubFlow(fsm_state')) =>
                fsm_state' = "entering_full_name" /\ cur2 = 0 /\ pd2 = <<>>
      ]_vars

\* C11: a family of three has been collected: the cursor stands at 2, three
\* participants are in the session, and style selection is entered
C11_ThreeCollected ==
    /\ fsm_state = "choosing_style"
    /\ fsm_data["participants_count"] = PyInt(3)
    /\ fsm_data["current_participant"] = 2
    /\ Len(fsm_data["participants_data"]) = 3

\* C12: the chat user has one FSM record, so one session at most; a /new
\* taken in any state, a session in progress included, writes nothing to
\* storage and leaves the session at tariff selection with empty data; the
\* tariff step that follows starts the participants from nothing, with the
\* cursor at 0 and the count of the tariff chosen now.
C12_NewDiscardsSession ==
    [][ /\ inp' = Message(CmdNew) =>
              /\ fsm_state' = "choosing_tariff"
              /\ fsm_data' = EmptyDict
              /\ orders' = orders /\ participants' = participants
        /\ (fsm_state = "choosing_tariff" /\ inp'.kind = "callback"
              /\ inp'.text[1] = "tariff") =>
              /\ fsm_data = EmptyDict
              /\ fsm_data' = [tariff |-> inp'.text[2],
                              participants_data |-> <<>>,
                              current_participant |-> 0,
                              participants_count |->
                                  IF inp'.text[2] = "family" THEN PyNone
                                  ELSE PyInt(IF inp'.text[2] = "pair" THEN 2 ELSE 1)]
      ]_vars

\* C12: /new has just been taken and nothing is in the session or in storage
C12_SessionRestarted ==
    /\ inp = Message(CmdNew)
    /\ fsm_state = "choosing_tariff"
    /\ fsm_data = EmptyDict
    /\ orders = <<>>

---------------------------------------------------------------------------
(* Properties of the fulfilment pipeline, checked under SpecPipe *)

\* C1: of the invocations of start_ai_generation for one order at most one
\* gets past the status write (a second one exits), so each provider is
\* called at most once for the order and at most one AiLog row is written
\* for it.
C1_DispatchedAtMostOnce ==
    \A o \in OrderIds :
        LET past == {t \in Live : t.kind = "payment" /\ t.order_id = o
                                    /\ t.pc # "processing"}
        IN /\ BagCardinality([t \in past |-> CopiesIn(t, tasks)]) <= 1
           /\ provider_calls[o].gpt4 <= 1
           /\ provider_calls[o].manus <= 1
           /\ Cardinality({i \in 1..Len(ai_logs) : ai_logs[i].order_id = o}) <= 1

\* C1: two invocations for the one order have both written their AiLog row
\* and stand before the provider call
C1_TwoDispatchesRunning ==
    \E t \in Live :
        /\ t.kind = "payment" /\ t.pc = "providers"
        /\ \E u \in Live : /\ u.kind = "payment" /\ u.pc = "providers"
                           /\ u.order_id = t.order_id /\ u.log_id # t.log_id

\* C2: a step taken while an order that was paid is no longer PENDING
\* leaves its payment_method, payment_id and paid_at as they are, does not
\* make it PAID again, and starts no further invocation of
\* start_ai_generation for it.
C2_LatePaymentIgnored ==
    [][ \A o \in OrderIds :
          (orders[o].status # "pending" /\ orders[o].paid_at # NULL) =>
            LET fresh == Task("payment", "processing", o, "paid", 0, "", "")
            IN /\ orders'[o].payment_method = orders[o].payment_method
               /\ orders'[o].payment_id = orders[o].payment_id
               /\ orders'[o].paid_at = orders[o].paid_at
               /\ orders'[o].status = "paid" => orders[o].status = "paid"
               /\ CopiesIn(fresh, tasks') <= CopiesIn(fresh, tasks) ]_vars

\* C2: two confirmations were answered for the one order, and it is PAID
\* again after the first had moved it to PROCESSING
C2_PaidTwice ==
    \E o \in OrderIds :
        /\ CopiesIn(Sent(OwnerChat(o), "message", "payment_ok",
                         orders[o].order_uuid, NULL, ""), outbox) = 2
        /\ orders[o].status = "paid"
        /\ \E t \in Live : t.kind = "payment" /\ t.order_id = o
                           /\ t.mem_status = "processing"

\* C3: for an order that is COMPLETED or FAILED no callback is taken up: no
\* step starts handle_n8n_result or handle_n8n_error for it.
C3_TerminalCallbackNoOp ==
    [][ \A o \in OrderIds :
          orders[o].status \in {"completed", "failed"} =>
            \A t \in BagToSet(tasks') :
                (t.kind \in {"n8n_result", "n8n_error"} /\ t.order_id = o
                   /\ t.pc \in {"render", "fail_log"})
                => CopiesIn(t, tasks') <= CopiesIn(t, tasks) ]_vars

\* C3: handle_n8n_result runs for an order it found COMPLETED
C3_CallbackOnCompleted ==
    \E t \in Live : t.kind = "n8n_result" /\ t.mem_status = "completed"

\* C4: an invocation of start_ai_generation never ends with the persisted
\* order in PROCESSING.
C4_NeverLeftProcessing ==
    [][ \A o \in OrderIds :
          LET running(b) ==
                  LET mine == {t \in BagToSet(b) : t.kind = "payment"
                                                    /\ t.order_id = o}
                  IN BagCardinality([t \in mine |-> CopiesIn(t, b)])
          IN running(tasks') < running(tasks)
                => orders'[o].status # "processing" ]_vars

\* C4: no invocation is running, the order is PROCESSING, and nothing was
\* logged or sent about a failure
C4_StuckInProcessing ==
    \E o \in OrderIds :
        /\ orders[o].status = "processing"
        /\ tasks = EmptyBag
        /\ LatestLog(o) = 0
        /\ \A m \in BagToSet(outbox) : m.what # "generation_failed"

\* C5: an order completed by a success callback that found it PROCESSING
\* (the callback marked the AiLog row success; the dispatch still running got
\* no answer from any provider) keeps its artifact: once the owner's
\* /download returns the artifact rendered from the callback's text, it
\* returns that same artifact after every later step.
C5_DownloadKeepsArtifact ==
    [][ \A o \in OrderIds :
          LET got == Answer(OwnerChat(o), "document", PdfPath(orders[o].order_uuid))
              art == [path |-> PdfPath(orders[o].order_uuid),
                      content |-> "n8n_report"]
          IN (/\ DownloadAnswer(OwnerChat(o), orders[o]) = got
              /\ art \in files
              /\ LatestLog(o) # 0
              /\ ai_logs[LatestLog(o)].status = "success"
              /\ \A t \in Live :
                    (t.kind = "payment" /\ t.order_id = o)
                    => (t.pc = "fail" /\ t.error = "all_providers_unavailable"))
             => (DownloadAnswer(OwnerChat(o), orders[o])' = got
                   /\ art \in files') ]_vars

\* C5: the order was completed from the text of a callback that found it
\* PROCESSING, and the owner's /download returned that artifact
C5_CallbackArtifactDownloaded ==
    \E o \in OrderIds :
        /\ reply = Answer(OwnerChat(o), "document", PdfPath(orders[o].order_uuid))
        /\ [path |-> PdfPath(orders[o].order_uuid), content |-> "n8n_report"]
              \in files
        /\ LatestLog(o) # 0
        /\ ai_logs[LatestLog(o)].status = "success"
        /\ \E t \in Live : /\ t.kind = "payment" /\ t.order_id = o
                           /\ t.pc = "fail"
                           /\ t.error = "all_providers_unavailable"

\* the fixed price list: quick 500, deep 1500, pair 2000, family 3000
PriceListed(tariff, amount) ==
    \/ tariff = "quick" /\ amount = 500
    \/ tariff = "deep" /\ amount = 1500
    \/ tariff = "pair" /\ amount = 2000
    \/ tariff = "family" /\ amount = 3000

C14_BadTokenRejected ==
    [][ \A r \in N8nRequests :
          ((r.token = "" \/ r.token # config.N8N_SECRET_TOKEN)
             /\ receive_n8n_request(r))
          => UNCHANGED <<orders, ai_logs, outbox, tasks, files>> ]_vars

\* C14: N8N_SECRET_TOKEN is left at its default, so no token can be
\* verified, and handle_n8n_result is running for a callback
C14_UnverifiedCallbackHandled ==
    /\ config.N8N_SECRET_TOKEN = ""
    /\ \E t \in Live : t.kind = "n8n_result"

\* C15: a /cancel touches nothing but the session: every order, participant,
\* user and AiLog row, every file and every running handler is as before,
\* whatever the status of the user's order; with a session it clears it, and
\* without one it leaves state and data as they are.
C15_CancelTouchesSessionOnly ==
    [][ (/\ inp' = Message(CmdCancel)
         /\ reply' \in {Said("no_active_order"), Said("order_cancelled")}
         /\ <<inp, reply, fsm_state, fsm_data>>' # <<inp, reply, fsm_state, fsm_data>>)
        => /\ UNCHANGED <<orders, participants, users, ai_logs, files, tasks,
                          outbox, invoices, approved>>
           /\ IF fsm_state = "None"
              THEN /\ UNCHANGED <<fsm_state, fsm_data>>
                   /\ reply' = Said("no_active_order")
              ELSE /\ fsm_state' = "None"
                   /\ fsm_data' = EmptyDict
                   /\ reply' = Said("order_cancelled") ]_vars

\* C15: the session of a next order was cancelled while the user's paid
\* order was being generated, and the order is still in PROCESSING
C15_CancelledBesideProcessing ==
    /\ inp = Message(CmdCancel)
    /\ reply = Said("order_cancelled")
    /\ fsm_state = "None"
    /\ \E o \in OrderIds : /\ OwnerChat(o) = FlowUser
                           /\ orders[o].status = "processing"
                           /\ orders[o].payment_id # NULL

\* C16: /download answers with a document only for an order of the asking
\* user that is COMPLETED and whose stored file exists, and the document is
\* that order's file; this for a prefix, a whole identifier and a wildcard.
C16_DownloadOwnCompletedOnly ==
    [][ (reply'.what = "document" /\ reply' # reply) =>
          \E o \in OrderIds :
              /\ OwnerChat(o) = reply'.to
              /\ orders[o].status = "completed"
              /\ orders[o].pdf_url = reply'.file
              /\ FileExists(reply'.file) ]_vars

\* C16: the other user asked for the first user's completed order, whose
\* file exists, and was told that no such order was found
C16_StrangerToldNotFound ==
    /\ reply = Answer("tg2", "order_not_found", NULL)
    /\ \E o \in OrderIds : /\ OwnerChat(o) = FlowUser
                           /\ orders[o].status = "completed"
                           /\ orders[o].pdf_url # NULL
                           /\ FileExists(orders[o].pdf_url)

\* C17: a step by which /download answers (document sent, order not found,
\* not ready, file missing, send error) leaves every order row, every other
\* table, the files and the running handlers as they were.
C17_DownloadReadOnly ==
    [][ ("to" \in DOMAIN reply' /\ reply' # reply) =>
          UNCHANGED <<orders, participants, users, ai_logs, files, tasks,
                      outbox, review_timers>> ]_vars

\* C17: sending the file of a completed order failed, and the order is
\* COMPLETED with its pdf_url as before
C17_SendErrorAnswered ==
    /\ reply = Answer(FlowUser, "send_error", NULL)
    /\ \E o \in OrderIds : /\ orders[o].status = "completed"
                           /\ orders[o].pdf_url = PdfPath(orders[o].order_uuid)
                           /\ orders[o].completed_at # NULL

\* what the user has been sent as outcomes of the order: reports and
\* failure notices
Outcomes(o) ==
    LET mine == {m \in BagToSet(outbox) :
                    /\ m.order_uuid = orders[o].order_uuid
                    /\ m.what \in {"report_ready", "generation_failed"}}
    IN BagCardinality([m \in mine |-> CopiesIn(m, outbox)])

\* C18: of the callbacks that arrive for an order in PROCESSING one takes
\* effect: while only callbacks are handled, the user is sent one outcome of
\* the order at most, and once the order is COMPLETED or FAILED its status
\* stays.
C18_OneCallbackTakesEffect ==
    [][ \A o \in OrderIds :
          /\ Outcomes(o)' <= 1
          /\ orders[o].status \in {"completed", "failed"} =>
                orders'[o].status = orders[o].status ]_vars

\* C18: two callbacks are being handled at once for the order, which is in
\* PROCESSING
C18_TwoCallbacksInFlight ==
    \E o \in OrderIds :
        /\ orders[o].status = "processing"
        /\ LET mine == {t \in Live : t.order_id = o
                                       /\ t.kind \in {"n8n_result", "n8n_error"}}
           IN BagCardinality([t \in mine |-> CopiesIn(t, tasks)]) = 2

\* C19: with a provider configured, an order that is PAID or PROCESSING
\* reaches COMPLETED or FAILED, a restart of the process in between
\* included.
C19_RestartSurvived ==
    \A o \in 1..MaxOrders :
        (o \in OrderIds /\ ~NoProvider
           /\ orders[o].status \in {"paid", "processing"})
        ~> (o \in OrderIds /\ orders[o].status \in {"completed", "failed"})

\* C19: the process was restarted during the provider call: the order is in
\* PROCESSING, its AiLog row is pending, and no handler is running for it
C19_StoppedInProviderCall ==
    \E o \in OrderIds :
        /\ orders[o].status = "processing"
        /\ LatestLog(o) # 0
        /\ ai_logs[LatestLog(o)].status = "pending"
        /\ tasks = EmptyBag

\* C20: the gateway's payment.succeeded notification for a PENDING order
\* does what the in-platform confirmation does: the order becomes PAID with
\* the payment's id as payment_id, and start_ai_generation is started for
\* it once.
C20_GatewayPaymentDispatches ==
    [][ \A ev \in YooKassaEvents :
          (/\ ev.event = "payment.succeeded"
           /\ orders[ev.order_id].status = "pending"
           /\ yookassa_webhook_event(ev))
          => LET o     == ev.order_id
                 fresh == Task("payment", "processing", o, "paid", 0, "", "")
             IN /\ orders'[o].status = "paid"
                /\ orders'[o].payment_id = ev.payment_id
                /\ CopiesIn(fresh, tasks') = CopiesIn(fresh, tasks) + 1 ]_vars

\* C20: the gateway's notification was answered, and the order is PENDING
\* without a payment reference and without a dispatch
C20_GatewayAnsweredOrderPending ==
    /\ reply = [what |-> "http", status |-> 200]
    /\ tasks = EmptyBag
    /\ \E o \in OrderIds : /\ orders[o].status = "pending"
                           /\ orders[o].payment_id = NULL
                           /\ invoices = 0 /\ approved = 0

\* C6: taking up a failed callback for a PROCESSING order commits the order
\* as FAILED; when handle_n8n_error finishes, the order's latest AiLog row
\* is failed with exactly the callback's error text and a failure message
\* carrying the order_uuid has gone to the order's user.
C6_FailedCallbackRecorded ==
    [][ \A o \in OrderIds :
          \A t \in BagToSet(tasks) \cup BagToSet(tasks') :
            (t.kind = "n8n_error" /\ t.order_id = o) =>
              /\ (CopiesIn(t, tasks') > CopiesIn(t, tasks)
                    /\ orders[o].status = "processing")
                  => orders'[o].status = "failed"
              /\ CopiesIn(t, tasks') < CopiesIn(t, tasks) =>
                  LET note == Sent(OwnerChat(o), "message", "generation_failed",
                                   orders[o].order_uuid, NULL, t.error)
                  IN /\ LatestLog(o)' # 0 =>
                          /\ ai_logs'[LatestLog(o)'].status = "failed"
                          /\ ai_logs'[LatestLog(o)'].error_message = t.error
                     /\ CopiesIn(note, outbox') > CopiesIn(note, outbox) ]_vars

\* C6: a callback failed with "provider timeout" has been handled: the order
\* is FAILED, its latest AiLog row is failed with that text, and the user has
\* the failure message with the order_uuid
C6_TimeoutReported ==
    \E o \in OrderIds :
        /\ orders[o].status = "failed"
        /\ LatestLog(o) # 0
        /\ ai_logs[LatestLog(o)].status = "failed"
        /\ ai_logs[LatestLog(o)].error_message = "provider timeout"
        /\ Sent(OwnerChat(o), "message", "generation_failed",
                orders[o].order_uuid, NULL, "provider timeout") \in BagToSet(outbox)

\* C21: with no provider configured, the dispatch that finds it out calls no
\* provider and ends with the order persisted as FAILED and a failure
\* message sent to the order's user.
C21_NoProviderFailsOrder ==
    [][ \A t \in BagToSet(tasks) :
          (NoProvider /\ t.kind = "payment" /\ t.pc = "create_log"
             /\ CopiesIn(t, tasks') < CopiesIn(t, tasks))
          => /\ provider_calls' = provider_calls
             /\ orders'[t.order_id].status = "failed"
             /\ \E m \in BagToSet(outbox') :
                    /\ m.what = "generation_failed"
                    /\ m.to = OwnerChat(t.order_id)
                    /\ CopiesIn(m, outbox') > CopiesIn(m, outbox) ]_vars

\* C21: a paid order whose dispatch has ended on the missing configuration:
\* no provider was called, the order is PROCESSING and the last thing its
\* user was sent is the payment confirmation
C21_DispatchEndedUnconfigured ==
    \E o \in OrderIds :
        /\ NoProvider
        /\ orders[o].paid_at # NULL
        /\ orders[o].status = "processing"
        /\ tasks = EmptyBag
        /\ provider_calls[o] = [gpt4 |-> 0, manus |-> 0]
        /\ BagToSet(outbox) = {Sent(OwnerChat(o), "message", "payment_ok",
                                    orders[o].order_uuid, NULL, "")}

\* C22: the task reference of an asynchronous provider is never taken for
\* the report: the dispatch that got it does not carry it on as its text to
\* render and complete the order, and no artifact is made of it.
C22_TaskReferenceNotReport ==
    /\ \A t \in BagToSet(tasks) :
           t.kind = "payment" => t.text # "manus_task_id"
    /\ \A f \in files : f.content # "manus_task_id"

\* C22: Manus answered the dispatch with a task reference and no callback
\* has arrived: the order is COMPLETED and the document made of the
\* reference has been sent to the user
C22_TaskReferenceDelivered ==
    \E o \in OrderIds :
        /\ updates = 1 /\ orders[o].paid_at = <<1>>
        /\ tasks = EmptyBag
        /\ provider_calls[o].manus = 1
        /\ orders[o].status = "completed"
        /\ [path |-> PdfPath(orders[o].order_uuid),
            content |-> "manus_task_id"] \in files
        /\ Sent(OwnerChat(o), "document", "report_ready", orders[o].order_uuid,
                PdfPath(orders[o].order_uuid), "") \in BagToSet(outbox)

\* C23: a failure to send the artifact, after it was rendered and the order
\* committed COMPLETED, leaves the order COMPLETED with its pdf_url: neither
\* the step in which the sending fails nor the handling of that failure
\* makes the order FAILED or takes the pdf_url away, in the dispatch and in
\* the callback alike.
C23_DeliveryFailureKeepsCompleted ==
    [][ \A t \in BagToSet(tasks) :
          LET o       == t.order_id
              leaves  == CopiesIn(t, tasks') < CopiesIn(t, tasks)
              kept    == /\ orders'[o].status = "completed"
                         /\ orders'[o].pdf_url = PdfPath(orders[o].order_uuid)
          IN /\ (leaves /\ t.pc = "complete" /\ outbox' = outbox) => kept
             /\ (leaves /\ t.error = "send_error") => kept ]_vars

\* C23: the dispatch rendered the artifact and set its path, the sending of
\* it failed, and the order is FAILED
C23_UndeliveredOrderFailed ==
    \E o \in OrderIds :
        /\ orders[o].status = "failed"
        /\ orders[o].pdf_url = PdfPath(orders[o].order_uuid)
        /\ orders[o].completed_at # NULL
        /\ FileExists(orders[o].pdf_url)
        /\ LatestLog(o) # 0
        /\ ai_logs[LatestLog(o)].error_message = "send_error"
        /\ \A m \in BagToSet(outbox) : m.kind # "document"

\* C24: a success callback whose processing fails after the request was
\* accepted (rendering or delivery raised, the gateway is answered 500) is
\* not swallowed: by the end of that step the order's user has been sent a
\* message and a failure is persisted on the order or on its latest AiLog
\* row.
C24_CallbackFailureSurfaced ==
    [][ \A t \in BagToSet(tasks) :
          LET o == t.order_id IN
          (t.kind = "n8n_result" /\ CopiesIn(t, tasks') < CopiesIn(t, tasks)
             /\ reply' = Http(500))
          => /\ \E m \in BagToSet(outbox') :
                    /\ m.to = OwnerChat(o)
                    /\ CopiesIn(m, outbox') > CopiesIn(m, outbox)
             /\ \/ orders'[o].status = "failed"
                \/ /\ LatestLog(o)' # 0
                   /\ ai_logs'[LatestLog(o)'].status = "failed" ]_vars

\* C24: the rendering failed in a success callback and the request was
\* answered 500: the order is PROCESSING, its latest AiLog row says success,
\* and the user has been sent nothing since the payment confirmation
C24_CallbackFailureSwallowed ==
    \E o \in OrderIds :
        /\ reply = Http(500)
        /\ \A t \in BagToSet(tasks) : t.kind # "n8n_result"
        /\ orders[o].status = "processing"
        /\ orders[o].pdf_url = NULL
        /\ LatestLog(o) # 0
        /\ ai_logs[LatestLog(o)].status = "success"
        /\ BagToSet(outbox) = {Sent(OwnerChat(o), "message", "payment_ok",
                                    orders[o].order_uuid, NULL, "")}

\* C25: a text that strptime does not take as a date at the birth date step,
\* or as a time at the birth time step, is answered with the prompt to try
\* again: the state, the collected participants_data and the cursor are as
\* before, and no exception leaves the handler.
C25_BadDateOrTimeRetried ==
    [][ /\ (fsm_state = "entering_birth_date"
              /\ inp'.kind = "message"
              /\ Route(fsm_state, inp') = "process_birth_date"
              /\ ~DateParses(inp'.text))
           => /\ reply' = Said("bad_date_format")
              /\ fsm_state' = fsm_state
              /\ fsm_data' = fsm_data
        /\ (fsm_state = "entering_birth_time"
              /\ inp'.kind = "message"
              /\ Route(fsm_state, inp') = "process_birth_time"
              /\ ~TimeParses(inp'.text))
           => /\ reply' = Said("bad_time_format")
              /\ fsm_state' = fsm_state
              /\ fsm_data' = fsm_data ]_vars

\* C25: the second participant's birth time was given as 25:00 and the user
\* is asked again, still at the birth time step
C25_BadTimeReprompted ==
    /\ fsm_state = "entering_birth_time"
    /\ inp = Message(<<"2", "5", ":", "0", "0">>)
    /\ reply = Said("bad_time_format")
    /\ fsm_data["current_participant"] = 1
    /\ Len(fsm_data["participants_data"]) = 2
    /\ "birth_time" \notin DOMAIN fsm_data["participants_data"][2]

\* C26: a text message that is not a number, sent at the family count step,
\* is answered with a validation message and leaves the state and the
\* session data as they were.
C26_NonNumericCountAnswered ==
    [][ (fsm_state = "asking_family_count"
           /\ inp'.kind = "message"
           /\ inp'.text \notin {CmdStart, CmdCancel, CmdNew}
           /\ ~IntParses(inp'.text))
        => /\ reply' = Said("family_count_out_of_range")
           /\ fsm_state' = fsm_state
           /\ fsm_data' = fsm_data ]_vars

\* C26: the text "ab" was sent at the family count step: no handler took it
\* and nothing was answered
C26_NonNumericCountIgnored ==
    /\ fsm_state = "asking_family_count"
    /\ inp = Message(<<"a", "b">>)
    /\ reply = Said("nothing")
    /\ fsm_data["tariff"] = "family"

\* C27: a skip of the birth time or of the birth place stores None under the
\* field's key of the current participant, where the key was absent before
\* and nothing else of the session changes; the flow moves on as it does
\* when a value is entered (to the birth place after the time; after the
\* place to the next participant's name with the cursor advanced, or to the
\* style when it was the last); and process_style persists exactly the
\* skipped fields as NULL.
C27_SkipStoresNull ==
    [][ LET pd   == fsm_data["participants_data"]
            cur  == fsm_data["current_participant"]
            pd2  == fsm_data'["participants_data"]
            more == cur + 1 < fsm_data["participants_count"].v
        IN /\ (inp' = Callback(<<"skip">>) /\ fsm_state = "entering_birth_time")
              => /\ "birth_time" \notin DOMAIN pd[cur + 1]
                 /\ pd2 = [pd EXCEPT ![cur + 1] = Upd(@, "birth_time", None)]
                 /\ fsm_data' = Upd(fsm_data, "participants_data", pd2)
                 /\ fsm_state' = "entering_birth_place"
           /\ (inp' = Callback(<<"skip">>) /\ fsm_state = "entering_birth_place")
              => /\ "birth_place" \notin DOMAIN pd[cur + 1]
                 /\ pd2 = [pd EXCEPT ![cur + 1] = Upd(@, "birth_place", None)]
                 /\ fsm_data'["current_participant"] = IF more THEN cur + 1 ELSE cur
                 /\ fsm_state' = IF more THEN "entering_full_name"
                                 ELSE "choosing_style"
           /\ Len(participants') > Len(participants)
              => \A i \in 1..Len(pd) :
                    LET row == participants'[Len(participants) + i] IN
                    /\ row.birth_time = NULL <=> pd[i]["birth_time"] = None
                    /\ row.birth_place = NULL <=> pd[i]["birth_place"] = None ]_vars

\* C27: an order is stored whose first participant skipped the birth time
\* and entered the birth place
C27_SkippedTimeStoredNull ==
    /\ Len(orders) = 1
    /\ Len(participants) >= 1
    /\ participants[1].birth_time = NULL
    /\ participants[1].birth_place = <<"O", "m", "s", "k">>

\* C28: no order ever has more than one Review, whatever rating buttons are
\* pressed and comments sent and however their handlers interleave.
C28_OneReviewPerOrder ==
    \A o \in OrderIds :
        Cardinality({i \in 1..Len(reviews) : reviews[i].order_id = o}) <= 1

\* C28: two comments were taken up before the first of their handlers
\* cleared the state: both have committed a Review of the same order and
\* the state is cleared
C28_TwoReviewsOfOneOrder ==
    /\ Len(reviews) = 2
    /\ reviews[1].order_id = reviews[2].order_id
    /\ tasks = EmptyBag
    /\ fsm_state = "None"
    /\ reply = Said("review_thanks")

\* C29: no wait for a provider goes on beyond the bound of a few minutes: a
\* call still waiting has waited less than max_wait, and a call that has
\* ended has ended with the text or with a raised failure.
C29_EveryWaitBounded ==
    \A t \in BagToSet(tasks) :
        /\ t.pc \in {"polling", "text", "raised"}
        /\ t.pc = "polling" => t.waited < max_wait
        /\ t.pc = "raised" => t.error # ""

\* C29: the loop of GPT4Client._generate_with_assistant is still polling
\* after twice the time at which GPTAssistantWithBook gives up
C29_StillPollingAfterLimit ==
    \E t \in BagToSet(tasks) :
        /\ t.kind = "gpt4_assistant"
        /\ t.pc = "polling"
        /\ t.waited = 2 * max_wait

\* C30: the status of an order changes only along pending -> paid ->
\* processing -> completed or failed: no step takes a COMPLETED or FAILED
\* order to another status, moves an order backwards, or takes a PENDING
\* order straight to COMPLETED or FAILED.
C30_StatusMovesForward ==
    [][ \A o \in OrderIds :
          LET from == orders[o].status
              to   == orders'[o].status
          IN \/ to = from
             \/ from = "pending" /\ to = "paid"
             \/ from = "paid" /\ to = "processing"
             \/ from = "processing" /\ to \in {"completed", "failed"} ]_vars

\* C30: a failed callback for an order that was never paid has been handled:
\* the order went from PENDING to FAILED
C30_PendingOrderFailed ==
    \E o \in OrderIds :
        /\ orders[o].status = "failed"
        /\ orders[o].paid_at = NULL
        /\ orders[o].payment_id = NULL
        /\ tasks = EmptyBag
        /\ Sent(OwnerChat(o), "message", "generation_failed",
                orders[o].order_uuid, NULL, "provider timeout") \in BagToSet(outbox)

\* C31: a dispatch on its way to a provider first commits the order as
\* PROCESSING, then appends exactly one AiLog row of the order with status
\* pending, and calls a provider only with that row written; the rows of
\* ai_logs are never removed or given to another order; and a step of a
\* generation callback changes at most the latest row of its order.
C31_LogAppendedBeforeCall ==
    [][ /\ \A t \in BagToSet(tasks) :
             (t.kind = "payment" /\ CopiesIn(t, tasks') < CopiesIn(t, tasks)) =>
                LET o == t.order_id IN
                /\ t.pc = "processing" => orders'[o].status = "processing"
                /\ (t.pc = "create_log" /\ ~NoProvider) =>
                      /\ Len(ai_logs') = Len(ai_logs) + 1
                      /\ SubSeq(ai_logs', 1, Len(ai_logs)) = ai_logs
                      /\ ai_logs'[Len(ai_logs')].order_id = o
                      /\ ai_logs'[Len(ai_logs')].status = "pending"
                      /\ provider_calls' = provider_calls
                /\ provider_calls' # provider_calls =>
                      /\ t.pc = "providers"
                      /\ t.log_id \in 1..Len(ai_logs)
                      /\ ai_logs[t.log_id].order_id = o
        /\ Len(ai_logs') >= Len(ai_logs)
        /\ \A i \in 1..Len(ai_logs) : ai_logs'[i].order_id = ai_logs[i].order_id
        /\ \A t \in BagToSet(tasks) \cup BagToSet(tasks') :
             (t.kind \in {"n8n_result", "n8n_error"}
                /\ CopiesIn(t, tasks') # CopiesIn(t, tasks)) =>
                /\ Len(ai_logs') = Len(ai_logs)
                /\ \A i \in 1..Len(ai_logs) :
                       ai_logs'[i] # ai_logs[i] =>
                           /\ ai_logs[i].order_id = t.order_id
                           /\ \A j \in 1..Len(ai_logs) :
                                  ai_logs[j].order_id = t.order_id => j <= i ]_vars

\* C31: a dispatch wrote its pending row and called the GPT client, and a
\* failed callback has since marked that row, the latest of the order
C31_CallbackMarkedDispatchRow ==
    \E o \in OrderIds :
        /\ Len(ai_logs) = 1
        /\ ai_logs[1].order_id = o
        /\ provider_calls[o].gpt4 = 1
        /\ ai_logs[1].status = "failed"
        /\ ai_logs[1].error_message = "Unknown error from N8N"

\* C32: an order carries a payment method and a payment reference exactly
\* when it has left PENDING: a PENDING order has neither, and a PAID,
\* PROCESSING, COMPLETED or FAILED order has both.
C32_PaymentSetIffPaid ==
    \A o \in OrderIds :
        IF orders[o].status = "pending"
        THEN /\ orders[o].payment_method = "NULL"
             /\ orders[o].payment_id = NULL
        ELSE /\ orders[o].payment_method # "NULL"
             /\ orders[o].payment_id # NULL
             /\ orders[o].paid_at # NULL

\* C32: a success callback named an order that was never paid: the report
\* was rendered from its text and delivered, and the order is COMPLETED
\* with no payment method and no payment reference
C32_UnpaidOrderDelivered ==
    \E o \in OrderIds :
        /\ orders[o].status = "completed"
        /\ orders[o].payment_method = "NULL"
        /\ orders[o].payment_id = NULL
        /\ [path |-> PdfPath(orders[o].order_uuid), content |-> "n8n_report"]
               \in files
        /\ Sent(OwnerChat(o), "document", "report_ready", orders[o].order_uuid,
                PdfPath(orders[o].order_uuid), "") \in BagToSet(outbox)

\* C33: an order has an artifact location and a completion timestamp exactly
\* when it is COMPLETED: in no other status is pdf_url or completed_at set.
C33_ArtifactIffCompleted ==
    \A o \in OrderIds :
        /\ orders[o].pdf_url # NULL <=> orders[o].status = "completed"
        /\ orders[o].completed_at # NULL <=> orders[o].status = "completed"

\* C33: a failed callback was handled for an order already COMPLETED: the
\* order is FAILED and still carries the artifact location and the
\* completion timestamp
C33_FailedOrderKeepsArtifact ==
    \E o \in OrderIds :
        /\ orders[o].status = "failed"
        /\ orders[o].pdf_url = PdfPath(orders[o].order_uuid)
        /\ orders[o].completed_at # NULL
        /\ tasks = EmptyBag
        /\ Sent(OwnerChat(o), "message", "generation_failed",
                orders[o].order_uuid, NULL, "provider timeout") \in BagToSet(outbox)

\* C34: for every order at most one request_review is ever scheduled, and
\* none before the artifact was sent to its user.
C34_ReviewRequestedOnce ==
    \A o \in OrderIds :
        LET doc == Sent(OwnerChat(o), "document", "report_ready",
                        orders[o].order_uuid, PdfPath(orders[o].order_uuid), "")
        IN /\ review_timers[o] <= 1
           /\ review_timers[o] > 0 => CopiesIn(doc, outbox) > 0

\* C34: the dispatch delivered the report and a success callback delivered
\* it again: two request_review tasks were created for the one order
C34_TwoReviewRequests ==
    \E o \in OrderIds :
        /\ review_timers[o] = 2
        /\ provider_calls[o].gpt4 = 1
        /\ [path |-> PdfPath(orders[o].order_uuid), content |-> "n8n_report"]
               \in files
        /\ tasks = EmptyBag

\* C35: in the step in which a dispatch calls the providers, the GPT client
\* is called once if it is configured and Manus at most once; Manus is
\* called only when it is configured and the GPT client is absent or gave no
\* text; when the GPT client gave text, that text is carried on and Manus is
\* not called; and the dispatch fails, with "all providers unavailable",
\* exactly when every configured provider was called and none answered.
C35_FallbackInOrder ==
    [][ \A t \in BagToSet(tasks) :
          (t.kind = "payment" /\ t.pc = "providers"
             /\ CopiesIn(t, tasks') < CopiesIn(t, tasks)) =>
          LET o  == t.order_id
              dg == provider_calls'[o].gpt4 - provider_calls[o].gpt4
              dm == provider_calls'[o].manus - provider_calls[o].manus
          IN \E t2 \in BagToSet(tasks') :
                /\ CopiesIn(t2, tasks') > CopiesIn(t2, tasks)
                /\ t2.order_id = o /\ t2.log_id = t.log_id
                /\ dg = (IF config.gpt_book_client THEN 1 ELSE 0)
                /\ dm \in {0, 1}
                /\ dm = 1 => config.MANUS_API_KEY
                /\ \/ /\ t2.pc = "render" /\ t2.text = "report_text"
                      /\ dg = 1 /\ dm = 0
                      /\ ai_logs'[t.log_id].provider = "gpt4"
                   \/ /\ t2.pc = "render" /\ t2.text = "manus_task_id"
                      /\ dm = 1
                      /\ ai_logs'[t.log_id].provider = "manus"
                   \/ /\ t2.pc = "fail"
                      /\ t2.error = "all_providers_unavailable"
                      /\ dm = (IF config.MANUS_API_KEY THEN 1 ELSE 0) ]_vars

\* C35: with both providers configured the GPT client answered with the
\* text: Manus was not called and the report rendered is that text
C35_FirstSuccessWon ==
    \E o \in OrderIds :
        /\ config.gpt_book_client /\ config.MANUS_API_KEY
        /\ provider_calls[o] = [gpt4 |-> 1, manus |-> 0]
        /\ [path |-> PdfPath(orders[o].order_uuid), content |-> "report_text"]
               \in files

\* C36: whoever stands at style selection has a User row, and the choice of
\* a style never fails for want of one.
C36_UserExistsAtStyle ==
    /\ fsm_state = "choosing_style" => UserRows(FlowUser) # {}
    /\ reply # Said("raised:NoResultFound")

\* C36: a user who began with /new chose a style: no User row exists,
\* process_style raised, no order was stored and the session stays at style
\* selection
C36_StyleChosenWithoutUser ==
    /\ users = <<>>
    /\ orders = <<>>
    /\ fsm_state = "choosing_style"
    /\ inp = Callback(<<"style", "shamanic">>)
    /\ reply = Said("raised:NoResultFound")

\* C37: a pre-checkout query is answered ok exactly when its payload is
\* "order_" followed by the order_uuid of an order that is PENDING; with
\* another payload, no such order, or the order in another status it is
\* refused; and the handler changes no order.
C37_PreCheckoutOnlyPending ==
    [][ \A p \in Payloads :
          pre_checkout_query(p) =>
            /\ reply' = Said("pre_checkout_ok") <=>
                   /\ p[1] = "order_"
                   /\ \E o \in OrderIds : /\ orders[o].order_uuid = Tail(p)
                                          /\ orders[o].status = "pending"
            /\ reply' \in {Said("pre_checkout_ok"), Said("pre_checkout_rejected"),
                           Said("pre_checkout_bad_payload")}
            /\ orders' = orders ]_vars

\* C37: the invoice of an order stayed in the chat while the order was
\* COMPLETED, and the pre-checkout query for it has been refused
C37_LateCheckoutRefused ==
    \E o \in OrderIds :
        /\ reply = Said("pre_checkout_rejected")
        /\ invoices > 0
        /\ orders[o].status = "completed"

\* C38: in every state of the per-participant sub-flow the count is set,
\* 0 <= current_participant < participants_count, and participants_data holds
\* current_participant entries at the name step and current_participant + 1
\* after it; at style selection participants_data holds participants_count
\* entries and each has the keys full_name, birth_date, birth_time and
\* birth_place.
C38_CursorWithinCount ==
    LET N   == Get(fsm_data, "participants_count", PyNone)
        cur == Get(fsm_data, "current_participant", -1)
        pd  == Get(fsm_data, "participants_data", <<>>)
    IN /\ InSubFlow(fsm_state) =>
            /\ N.k = "int"
            /\ 0 <= cur /\ cur < N.v
            /\ Len(pd) = IF fsm_state = "entering_full_name" THEN cur ELSE cur + 1
       /\ fsm_state = "choosing_style" =>
            /\ N.k = "int"
            /\ Len(pd) = N.v
            /\ \A i \in 1..Len(pd) :
                   {"full_name", "birth_date", "birth_time", "birth_place"}
                       \subseteq DOMAIN pd[i]

\* C38: a family of three stands at style selection and the place of its
\* last member was skipped
C38_FamilyCollectedWithSkip ==
    /\ fsm_state = "choosing_style"
    /\ fsm_data["participants_count"] = PyInt(3)
    /\ Len(fsm_data["participants_data"]) = 3
    /\ fsm_data["participants_data"][3]["birth_place"] = None

\* C39: a callback that names no existing order, or reports "success" without
\* a text, or carries a status other than "success" and "failed", changes no
\* order and no log row, writes no file, starts no handler work and sends
\* nothing to any user.
C39_MalformedCallbackInert ==
    [][ \A r \in N8nRequests :
          ( /\ receive_n8n_request(r)
            /\ \/ r.order_id \notin OrderIds
               \/ r.status = "success" /\ r.text = ""
               \/ r.status \notin {"success", "failed"} )
          => /\ orders' = orders
             /\ ai_logs' = ai_logs
             /\ outbox' = outbox
             /\ files' = files
             /\ tasks' = tasks
             /\ review_timers' = review_timers ]_vars

\* C39: the first callback of the order was refused with status 500 (a
\* success without text, or an unknown status): the order is PROCESSING and
\* its log row pending as before
C39_BadCallbackRefused ==
    /\ reply = Http(500)
    /\ updates = 0
    /\ orders[1].status = "processing"
    /\ Len(ai_logs) = 1 /\ ai_logs[1].status = "pending"
    /\ BagCardinality(outbox) = 1

===========================================================================
